---- MODULE Spec2Model ----
(***************************************************************************)
(* A model of dpcontracts.py: the decorators require, ensure, preserve and *)
(* invariant, the function objects they create, and the execution of one   *)
(* call through the resulting stack of wrappers.                           *)
(*                                                                         *)
(* Function objects live in the table funcs; a wrapper refers to the       *)
(* function it wraps by index.  A call is executed on an explicit Python   *)
(* call stack, one action per straight-line segment of a wrapper (the part *)
(* before the wrapped function is called, and the part after it returned). *)
(* Every predicate, preserver and clean-up evaluation and the run of the   *)
(* body is appended to log, in the order the code performs them.           *)
(***************************************************************************)
EXTENDS Integers, Sequences, FiniteSets, TLC

VARIABLES
    funcs,      \* the function objects created so far (1 = first created)
    classes,    \* classes[1] is the class as written, classes[k+1] the
                \* InvariantContractor made by the k-th invariant(...)
    heap,       \* the receiver object's attribute `value` (when set), and
                \* whether the iterator handed to the call is spent
    phase,      \* "define" | "derive" | "call" | "done"
    stack,      \* the Python call stack of the call, innermost frame last
    ctl,        \* "idle" | "call" | "return" | "raise": what reaches the top frame;
                \* "suspended" while the running coroutine waits in its body
    ret,        \* the value being returned
    exc,        \* the exception being raised
    called,     \* the member the call was made to
    log         \* the evaluations performed by the call, in order

vars == <<funcs, classes, heap, phase, stack, ctl, ret, exc, called, log>>

-----------------------------------------------------------------------------
(* Bounds of the model.                                                    *)

MaxLayers == 3          \* decorators stacked on one function (basic forms)
MaxFormLayers == 2      \* decorators stacked when every argument form is drawn
MaxMethodLayers == 2    \* decorators on a method of a class given invariants
MaxInvariants == 2      \* invariant(...) decorators stacked on one class
MaxArg == 2             \* call arguments are drawn from -1 .. MaxArg
MaxInit == 1            \* the receiver starts with value in -1 .. MaxInit
MaxTransformLayers == 2 \* decorators stacked on a function given transform
MaxItems == 2           \* items of a list or generator argument
MaxItem == 1            \* the items are drawn from 0 .. MaxItem
MaxAsyncLayers == 2     \* decorators stacked on a coroutine function
MaxAsyncArg == 2        \* a coroutine is called with a value in 1 .. MaxAsyncArg
MaxTasks == 2           \* invocations of the coroutine function
MaxTypesLayers == 2     \* types(...) decorators stacked on a function
MaxTypesArgs == 2       \* positional arguments of a call of that function
MaxDisabledDecorators == 2  \* decorators applied when __debug__ is false
MaxDisabledTypes == 1   \* types(...) decorators applied when __debug__ is false
MaxPropagateLayers == 2 \* decorators stacked on a function that may raise
MaxAttachLayers == 1    \* require and ensure decorators tried on a method
MaxBindLayers == 2      \* always-true preconditions stacked on a function
MaxBindArgs == 3        \* positional arguments of a call
MaxBindValue == 2       \* the arguments are drawn from 1 .. MaxBindValue

ArgValues == -1 .. MaxArg
InitValues == -1 .. MaxInit

-----------------------------------------------------------------------------
(* Python values.                                                          *)

None_ == [t |-> "none"]
IntV(n) == [t |-> "int", n |-> n]
StrV(q) == [t |-> "str", q |-> q]          \* q: the text, as a sequence of pieces
FnV(id) == [t |-> "fn", id |-> id]
RefV == [t |-> "ref"]                      \* the receiver object
ClsV == [t |-> "class"]                    \* the class object
TupleV(q) == [t |-> "tuple", q |-> q]
ArgsV(m) == [t |-> "args", m |-> m]        \* a namedtuple: field name -> value
IterV(q) == [t |-> "iter", q |-> q]        \* a generator that yields the items q once
ListV(q) == [t |-> "list", q |-> q]
CoroV(fn, args, kwargs) ==                 \* the coroutine object made by a call
    [t |-> "coro", fn |-> fn, args |-> args, kwargs |-> kwargs]
Nonce == [t |-> "nonce"]                   \* build_call's marker of an unbound name
NoKwargs == <<>>                           \* a call without keyword arguments

\* dict.update: the entries of e replace and extend those of d
Update(d, e) ==
    [k \in DOMAIN d \cup DOMAIN e |-> IF k \in DOMAIN e THEN e[k] ELSE d[k]]

SameValue(x, y) ==
    /\ x.t = y.t
    /\ x.t = "int" => x.n = y.n
    /\ x.t = "fn" => x.id = y.id
    /\ x.t = "str" => x.q = y.q

Truthy(x) ==
    CASE x.t = "none" -> FALSE
      [] x.t = "int" -> x.n # 0
      [] x.t = "str" -> x.q # <<>>
      [] OTHER -> TRUE

\* Python's `a or b`
Or(a, b) == IF Truthy(a) THEN a ELSE b

IsStr(x) == x.t = "str"
IsInt(x) == x.t = "int"
IsFunction(x) == x.t = "fn"
IsNone(x) == x.t = "none"

-----------------------------------------------------------------------------
(* Exceptions.                                                             *)

NoExc == [type |-> "none", description |-> <<>>, errno |-> None_, fn |-> 0]

\* PreconditionError(description, errno), raised by the wrapper fn
PreconditionError(description, errno, fn) ==
    [type |-> "PreconditionError", description |-> description, errno |-> errno, fn |-> fn]

PostconditionError(description, errno, fn) ==
    [type |-> "PostconditionError", description |-> description, errno |-> errno, fn |-> fn]

OtherError(type, text, fn) ==
    [type |-> type, description |-> <<text>>, errno |-> None_, fn |-> fn]

-----------------------------------------------------------------------------
(* The predicates, preservers and clean-up actions the decorators are      *)
(* given; each is a function of the program, known to the model by name.   *)

UnaryPredicates == {"pos", "small"}
PostPredicates == {"resPos", "incremented"}
InvariantPredicates == {"nonneg", "atMostOne"}
CleanUps == {"cleanup_ok", "cleanup_raises"}
IterPredicates == {"allPos"}
TruePredicates == {"true"}
TypesPredicates == {"types(value=int)", "types(b=str)", "types(b=str, value=int)",
                   "types(value=(int, NoneType))"}
CoroutinePredicates == {"coropred"}     \* async def coropred(e): ...
AsyncPostPredicates == PostPredicates \cup {"resSet"}
Transformers == {"materialize", "identity"}

ArgCountOf(pid) ==
    CASE pid \in UnaryPredicates \cup InvariantPredicates \cup IterPredicates -> 1
      [] pid \in TruePredicates \cup CoroutinePredicates \cup TypesPredicates -> 1
      [] pid \in {"resPos", "resSet"} -> 2
      [] pid = "incremented" -> 3
      [] OTHER -> 0

HasAttr(a, name) == a.t = "args" /\ name \in DOMAIN a.m

IsIterable(v) == v.t \in {"iter", "list"}

\* The items a traversal of v yields: a generator yields its items once.
Items(v, h) == IF v.t = "iter" /\ h.spent THEN <<>> ELSE v.q

\* The state after v was traversed.
Traversed(v, h) == IF v.t = "iter" THEN [h EXCEPT !.spent = TRUE] ELSE h

RECURSIVE Sum(_)
Sum(q) == IF q = <<>> THEN 0 ELSE Head(q) + Sum(Tail(q))

Bool(b) == IF b THEN "True" ELSE "False"

\* sorted(requirements.items()) of the predicate types(**requirements)
\* makes, each kind as the tuple of types it stands for.
TypesRequirements(pid) ==
    CASE pid = "types(value=int)" -> <<[name |-> "value", kind |-> {"int"}]>>
      [] pid = "types(b=str)" -> <<[name |-> "b", kind |-> {"str"}]>>
      [] pid = "types(b=str, value=int)" ->
            <<[name |-> "b", kind |-> {"str"}], [name |-> "value", kind |-> {"int"}]>>
      [] pid = "types(value=(int, NoneType))" ->
            <<[name |-> "value", kind |-> {"int", "none"}]>>

\* any(isinstance(value, k) for k in kind)
IsInstanceOfAny(value, kind) == value.t \in kind

\* A predicate that looks at the first requirement only.
TypesPredicateFirstOnly(requirements, a) ==
    IF requirements = <<>> THEN "True"
    ELSE IF ~HasAttr(a, requirements[1].name) THEN "AssertionError"
    ELSE Bool(IsInstanceOfAny(a.m[requirements[1].name], requirements[1].kind))

\* The predicate of types: the requirements are gone through in the order
\* of their names; a name args has no attribute for fails the assertion.
RECURSIVE TypesPredicate(_, _)
TypesPredicate(requirements, a) ==
    IF requirements = <<>> THEN "True"
    ELSE LET req == Head(requirements)
         IN  IF ~HasAttr(a, req.name) THEN "AssertionError"
             ELSE IF ~IsInstanceOfAny(a.m[req.name], req.kind) THEN "False"
             ELSE TypesPredicate(Tail(requirements), a)

\* predicate(rargs), predicate(rargs, result), predicate(rargs, result, old):
\* "True", "False", or the error the evaluation raises.
EvalPredicate(pid, a, r, old, h) ==
    CASE pid = "pos" ->          \* lambda args: args.value > 0
            IF HasAttr(a, "value") /\ IsInt(a.m.value)
            THEN Bool(a.m.value.n > 0) ELSE "AttributeError"
      [] pid = "small" ->        \* lambda args: args.value < 2
            IF HasAttr(a, "value") /\ IsInt(a.m.value)
            THEN Bool(a.m.value.n < 2) ELSE "AttributeError"
      [] pid = "allPos" ->       \* lambda args: all(x > 0 for x in args.value)
            IF ~HasAttr(a, "value") THEN "AttributeError"
            ELSE IF ~IsIterable(a.m.value) THEN "TypeError"
            ELSE LET q == Items(a.m.value, h)
                 IN  Bool(\A k \in 1 .. Len(q) : q[k] > 0)
      [] pid = "nonneg" ->       \* lambda self: self.value >= 0
            IF a.t = "ref" /\ h.set THEN Bool(h.value >= 0) ELSE "AttributeError"
      [] pid = "atMostOne" ->    \* lambda self: self.value <= 1
            IF a.t = "ref" /\ h.set THEN Bool(h.value <= 1) ELSE "AttributeError"
      [] pid = "resPos" ->       \* lambda args, result: result > 0
            IF IsInt(r) THEN Bool(r.n > 0) ELSE "TypeError"
      [] pid \in TypesPredicates ->
            TypesPredicate(TypesRequirements(pid), a)
      [] pid = "true" ->         \* lambda args: True
            "True"
      [] pid = "resSet" ->       \* lambda args, result: result is not None
            Bool(r # None_)
      [] pid = "incremented" ->  \* lambda args, res, old:
                                 \*   args.self.value == old.old_value + args.value
            IF /\ HasAttr(a, "self") /\ HasAttr(a, "value")
               /\ a.m.self.t = "ref" /\ h.set
               /\ "old_value" \in DOMAIN old
            THEN Bool(h.value = old.old_value.n + a.m.value.n)
            ELSE "AttributeError"
      [] OTHER -> "TypeError"

\* preserver(rargs): the mapping it returns, or the error it raises.
EvalPreserver(pid, a, h) ==
    CASE pid = "old_value" ->    \* lambda args: {"old_value": args.self.value}
            IF HasAttr(a, "self") /\ a.m.self.t = "ref" /\ h.set
            THEN [ok |-> TRUE, value |-> [old_value |-> IntV(h.value)]]
            ELSE [ok |-> FALSE, value |-> <<>>]
      [] OTHER ->                \* lambda x: {}
            [ok |-> TRUE, value |-> <<>>]

\* The state after predicate(rargs): a predicate that goes through a
\* generator leaves it spent.
AfterPredicate(pid, a, h) ==
    IF pid \in IterPredicates /\ HasAttr(a, "value") /\ IsIterable(a.m.value)
    THEN Traversed(a.m.value, h)
    ELSE h

\* rewrite(args, **kwargs), that is args._replace(**kwargs): the record with
\* the fields named given their new values, or ValueError when a name is
\* not a field of the record.
Rewrite(a, overrides) ==
    IF DOMAIN overrides \subseteq DOMAIN a.m
    THEN [out |-> "ok",
          value |-> ArgsV([name \in DOMAIN a.m |->
                              IF name \in DOMAIN overrides
                              THEN overrides[name] ELSE a.m[name]])]
    ELSE [out |-> "ValueError", value |-> None_]

\* transformer(rargs): the record it returns, or the error it raises.
EvalTransformer(tid, a, h) ==
    CASE tid = "materialize" ->  \* lambda args: rewrite(args, value=list(args.value))
            IF ~HasAttr(a, "value")
            THEN [out |-> "AttributeError", value |-> None_, heap |-> h]
            ELSE IF ~IsIterable(a.m.value)
            THEN [out |-> "TypeError", value |-> None_, heap |-> h]
            ELSE LET r == Rewrite(a, [value |-> ListV(Items(a.m.value, h))])
                 IN  [out |-> r.out, value |-> r.value,
                      heap |-> Traversed(a.m.value, h)]
      [] OTHER ->                \* lambda args: args
            [out |-> "ok", value |-> a, heap |-> h]

\* clean_up(*args, **kwargs): whether it raises
CleanUpRaises(id) == id = "cleanup_raises"
CleanUpErrorText == "boom"

-----------------------------------------------------------------------------
(* Member names, as sequences of characters.                               *)

N_init == <<"_", "_", "i", "n", "i", "t", "_", "_">>
N_len == <<"_", "_", "l", "e", "n", "_", "_">>
N_lt == <<"_", "_", "l", "t", "_", "_">>
N_x == <<"_", "_", "x">>
N_increment == <<"i", "n", "c", "r", "e", "m", "e", "n", "t">>
N_transfer == <<"t", "r", "a", "n", "s", "f", "e", "r">>

\* dir(c): the names in sorted order
DirOrder == <<N_init, N_len, N_lt, N_x, N_increment, N_transfer>>
Names == {DirOrder[i] : i \in 1 .. Len(DirOrder)}

StartsWith(s, p) == Len(s) >= Len(p) /\ SubSeq(s, 1, Len(p)) = p
EndsWith(s, p) == Len(s) >= Len(p) /\ SubSeq(s, Len(s) - Len(p) + 1, Len(s)) = p

Absent == [kind |-> "absent", fn |-> 0]

-----------------------------------------------------------------------------
(* Function objects.                                                       *)

\* The declared parameters of a `def`, as getfullargspec reports them:
\* positional names, the defaults of the last of them, the catch-all for
\* positional overflow ("" when there is none), the keyword-only names, their
\* defaults, and the catch-all for keywords.
Signature(named, defs, vargs, kwonly, kwonlydefs, varkw) ==
    [named |-> named, defs |-> defs, vargs |-> vargs,
     kwonly |-> kwonly, kwonlydefs |-> kwonlydefs, varkw |-> varkw]

Positional(named) == Signature(named, <<>>, "", <<>>, <<>>, "")

\* inner(*args, **kwargs)
InnerSignature == Signature(<<>>, <<>>, "args", <<>>, <<>>, "kwargs")

\* A function written with `def` or `async def`: its body and signature.
\* Every function object has the same fields; those a kind does not use are
\* empty.
DefFunction(body, sig, is_async) ==
    [kind |-> "function", f |-> 0, wrapped |-> 0,
     description |-> <<>>, predicate |-> "", precondition |-> FALSE,
     postcondition |-> FALSE, instance |-> FALSE, errno |-> None_,
     clean_up |-> None_, preserver |-> "", transformer |-> "",
     body |-> body, named |-> sig.named, sig |-> sig, is_async |-> is_async,
     cwf |-> 0, has_preserver |-> FALSE, preservers |-> <<>>,
     attached |-> <<>>]

\* A function written with `def`: its body and its positional parameters.
NewFunction(body, named) == DefFunction(body, Positional(named), FALSE)

\* Follows __contract_wrapped_func__ (cwf; 0 when the attribute is absent).
RECURSIVE GetWrappedFunc(_, _)
GetWrappedFunc(fs, i) ==
    IF fs[i].cwf # 0 THEN GetWrappedFunc(fs, fs[i].cwf) ELSE i

\* getfullargspec of a function object: a `def` has its declared names, an
\* `inner(*args, **kwargs)` has no names and the catch-all `args`.
FullArgSpec(fs, i) ==
    IF fs[i].kind = "function" THEN fs[i].sig ELSE InnerSignature

\* The names namedtuple(...) refuses as field names.
StartsWithUnderscore(name) == name \in {"_cache"}

\* tuple_of_dict(dictionary): namedtuple("Args", keys)(**dictionary), or the
\* ValueError namedtuple raises for a field name it refuses.
TupleOfDict(dictionary) ==
    IF \E name \in DOMAIN dictionary : StartsWithUnderscore(name)
    THEN [ok |-> FALSE, value |-> None_]
    ELSE [ok |-> TRUE, value |-> ArgsV(dictionary)]

\* The steps of build_call on the argspec spec: the dictionary `actual`
\* after every update.
Actual(spec, args, kwargs) ==
    LET named == spec.named
        n == Len(named)
        pos(name) == CHOOSE k \in 1 .. n : named[k] = name
        firstDef == n - Len(spec.defs)
        start == [name \in {named[k] : k \in 1 .. n} |-> Nonce]
        withKwDefs == Update(start, spec.kwonlydefs)
        withDefs == Update(withKwDefs,
                        [name \in {named[k] : k \in firstDef + 1 .. n} |->
                            spec.defs[pos(name) - firstDef]])
        withArgs == Update(withDefs,
                        [name \in {named[k] : k \in {j \in 1 .. n : j <= Len(args)}} |->
                            args[pos(name)]])
        overflow == IF Len(args) > n THEN SubSeq(args, n + 1, Len(args)) ELSE <<>>
        withVargs == IF spec.vargs # ""
                     THEN Update(withArgs, [name \in {spec.vargs} |-> TupleV(overflow)])
                     ELSE withArgs
    IN  Update(withVargs, kwargs)

\* build_call(func, *args, **kwargs): the namedtuple of the call, the
\* TypeError naming the first name still bound to the nonce, or namedtuple's
\* ValueError.
BuildCall(fs, f, args, kwargs) ==
    LET func == GetWrappedFunc(fs, f)
        spec == FullArgSpec(fs, func)
        named == spec.named
        actual == Actual(spec, args, kwargs)
        unbound == {k \in 1 .. Len(named) : actual[named[k]].t = "nonce"}
        record == TupleOfDict(actual)
    IN  IF unbound # {}
        THEN [ok |-> FALSE, value |-> None_, error |-> "TypeError",
              missing |-> named[CHOOSE k \in unbound : \A j \in unbound : k <= j]]
        ELSE IF ~record.ok
        THEN [ok |-> FALSE, value |-> None_, error |-> "ValueError", missing |-> ""]
        ELSE [ok |-> TRUE, value |-> record.value, error |-> "", missing |-> ""]

\* arg_count(predicate)
ArgCount(predicate) == ArgCountOf(predicate.id)

\* iscoroutinefunction(predicate)
IsCoroutineFunction(predicate) ==
    IsFunction(predicate) /\ predicate.id \in CoroutinePredicates

\* The assertions of condition(...).
ConditionAccepts(description, predicate, precondition, postcondition, instance) ==
    /\ IsStr(description)
    /\ Len(description.q) > 0
    /\ IsFunction(predicate)
    /\ ~IsCoroutineFunction(predicate)
    /\ precondition \/ postcondition
    /\ IF instance \/ precondition
       THEN ArgCount(predicate) = 1
       ELSE postcondition => ArgCount(predicate) \in {2, 3}

\* condition(...)(f): the function object `inner`, an `async def` when f is a
\* coroutine function.  @wraps(f) copies f's attributes, then
\* __contract_wrapped_func__ is set to wrapped.
ConditionInner(fs, f, description, predicate, precondition, postcondition, instance, errno, clean_up, attached) ==
    LET wrapped == GetWrappedFunc(fs, f)
    IN  [kind |-> "condition", f |-> f, wrapped |-> wrapped,
         description |-> description.q, predicate |-> predicate.id,
         precondition |-> precondition, postcondition |-> postcondition,
         instance |-> instance, errno |-> errno, clean_up |-> clean_up,
         preserver |-> "", transformer |-> "",
         body |-> "", named |-> <<>>, sig |-> InnerSignature,
         is_async |-> fs[f].is_async,
         cwf |-> wrapped,
         has_preserver |-> fs[f].has_preserver, preservers |-> fs[f].preservers,
         attached |-> attached]

\* get_function_source(func): the decorator's source text and " failed".
GetFunctionSource(predicate) == StrV(<<"@", predicate.id, " failed">>)

\* require(arg1, arg2, arg3): the accepted shapes, and what is handed to
\* condition(description, predicate, True, False, errno=errno).
RequireAccepts(arg1, arg2, arg3) ==
    \/ IsStr(arg1) /\ IsFunction(arg2) /\ IsNone(arg3)
    \/ IsFunction(arg1) /\ IsNone(arg2) /\ IsNone(arg3)
    \/ IsFunction(arg1) /\ IsInt(arg2) /\ IsNone(arg3)
    \/ IsStr(arg1) /\ IsFunction(arg2) /\ IsInt(arg3)

RequireErrno(arg1, arg2, arg3) ==
    IF IsStr(arg1) THEN Or(IntV(0), arg3) ELSE Or(IntV(0), arg2)

Require(arg1, arg2, arg3) ==
    IF IsStr(arg1)
    THEN [description |-> arg1, predicate |-> arg2,
          errno |-> RequireErrno(arg1, arg2, arg3), clean_up |-> None_]
    ELSE [description |-> GetFunctionSource(arg1), predicate |-> arg1,
          errno |-> RequireErrno(arg1, arg2, arg3), clean_up |-> None_]

\* ensure(arg1, arg2, arg3, arg4)
EnsureAccepts(arg1, arg2, arg3, arg4) ==
    \/ IsStr(arg1) /\ IsFunction(arg2) /\ IsNone(arg3) /\ IsNone(arg4)
    \/ IsFunction(arg1) /\ IsNone(arg2) /\ IsNone(arg3) /\ IsNone(arg4)
    \/ IsFunction(arg1) /\ IsInt(arg2) /\ IsNone(arg3) /\ IsNone(arg4)
    \/ IsStr(arg1) /\ IsFunction(arg2) /\ IsInt(arg3) /\ IsNone(arg4)
    \/ IsStr(arg1) /\ IsFunction(arg2) /\ IsFunction(arg3) /\ IsNone(arg4)
    \/ IsFunction(arg1) /\ IsFunction(arg2) /\ IsNone(arg3) /\ IsNone(arg4)
    \/ IsFunction(arg1) /\ IsInt(arg2) /\ IsFunction(arg3) /\ IsNone(arg4)
    \/ IsStr(arg1) /\ IsFunction(arg2) /\ IsInt(arg3) /\ IsFunction(arg4)

Ensure(arg1, arg2, arg3, arg4) ==
    IF IsStr(arg1)
    THEN [description |-> arg1, predicate |-> arg2,
          errno |-> Or(arg3, IntV(0)), clean_up |-> Or(arg4, None_)]
    ELSE [description |-> GetFunctionSource(arg1), predicate |-> arg1,
          errno |-> Or(arg2, IntV(0)), clean_up |-> Or(arg3, None_)]

\* preserve(preserver)(f): the function object `inner`; @wraps(f) copies
\* f's attributes as they are before the preserver is recorded.
PreserveInner(fs, f, preserver) ==
    [kind |-> "preserve", f |-> f, wrapped |-> GetWrappedFunc(fs, f),
     description |-> <<>>, predicate |-> "", precondition |-> FALSE,
     postcondition |-> FALSE, instance |-> FALSE, errno |-> None_,
     clean_up |-> None_, preserver |-> preserver, transformer |-> "",
     body |-> "", named |-> <<>>, sig |-> InnerSignature, is_async |-> FALSE,
     cwf |-> fs[f].cwf,
     has_preserver |-> fs[f].has_preserver, preservers |-> fs[f].preservers,
     attached |-> <<FnV(preserver)>>]

\* transform(transformer)(f): the function object `inner`; @wraps(f) copies
\* f's attributes.
TransformInner(fs, f, transformer) ==
    [kind |-> "transform", f |-> f, wrapped |-> GetWrappedFunc(fs, f),
     description |-> <<>>, predicate |-> "", precondition |-> FALSE,
     postcondition |-> FALSE, instance |-> FALSE, errno |-> None_,
     clean_up |-> None_, preserver |-> "", transformer |-> transformer,
     body |-> "", named |-> <<>>, sig |-> InnerSignature, is_async |-> FALSE,
     cwf |-> fs[f].cwf,
     has_preserver |-> fs[f].has_preserver, preservers |-> fs[f].preservers,
     attached |-> <<FnV(transformer)>>]

\* wrapped.__contract_preserver__.append(preserver)
RecordPreserver(fs, wrapped, preserver) ==
    [fs EXCEPT ![wrapped].has_preserver = TRUE,
               ![wrapped].preservers = Append(fs[wrapped].preservers, preserver)]

\* invariant(arg1, arg2): the description and predicate it hands on.
Invariant(arg1, arg2) ==
    IF IsStr(arg1)
    THEN [desc |-> arg1, predicate |-> arg2]
    ELSE [desc |-> GetFunctionSource(arg1), predicate |-> arg1]

Exceptions == {<<"_", "_", "g", "e", "t", "i", "t", "e", "m", "_", "_">>,
               <<"_", "_", "s", "e", "t", "i", "t", "e", "m", "_", "_">>,
               <<"_", "_", "l", "t", "_", "_">>, <<"_", "_", "l", "e", "_", "_">>,
               <<"_", "_", "e", "q", "_", "_">>, <<"_", "_", "n", "e", "_", "_">>,
               <<"_", "_", "g", "t", "_", "_">>, <<"_", "_", "g", "e", "_", "_">>,
               <<"_", "_", "i", "n", "i", "t", "_", "_">>}

\* check(name, func) for func = getattr(c, name), given as the member m of c:
\* a plain function and a staticmethod are read as functions, a classmethod
\* as a method bound to c, anything else as neither.
Check(name, m) ==
    IF StartsWith(name, <<"_", "_">>) /\ EndsWith(name, <<"_", "_">>)
       /\ name \notin Exceptions
    THEN FALSE
    ELSE IF m.kind \notin {"function", "staticmethod", "classmethod"}
    THEN FALSE
    ELSE IF m.kind = "classmethod"
    THEN FALSE
    ELSE TRUE

\* An invariant that is also checked on entry to __init__.
InvariantPreconditionAlways(name) == TRUE

\* The `precondition` argument of the condition made for member name.
InvariantPrecondition(name) == name # N_init

\* The loop of invariant(c) over dir(c): each member that passes check is
\* replaced, in the new class, by condition(desc, predicate,
\* name != "__init__", True, True)(value).
RECURSIVE WrapMembers(_, _, _, _, _)
WrapMembers(names, c, fs, tbl, inv) ==
    IF names = <<>>
    THEN [funcs |-> fs, cls |-> tbl]
    ELSE LET name == Head(names)
             m == c[name]
         IN  IF Check(name, m)
             THEN LET inner == ConditionInner(fs, m.fn, inv.desc, inv.predicate,
                                              InvariantPrecondition(name),
                                              TRUE, TRUE, IntV(0), None_,
                                              <<inv.desc, inv.predicate>>)
                  IN  WrapMembers(Tail(names), c, Append(fs, inner),
                                  [tbl EXCEPT ![name] =
                                      [kind |-> "function", fn |-> Len(fs) + 1]],
                                  inv)
             ELSE WrapMembers(Tail(names), c, fs, tbl, inv)

-----------------------------------------------------------------------------
(* The execution of a call.                                                *)

\* One entry of log: the evaluation ev ("pre", "post", "preserver",
\* "cleanup", "body") made by function object fn, of the predicate,
\* preserver, clean-up or body id, on argument a (with result r and preserved
\* values old where they are passed), and how it came out.  The entry of a
\* body keeps, as old, the state the body started from and the keyword
\* arguments it was called with; the entry of a transformer ("transform")
\* keeps, as r, the record it returned.
Ev(ev, fn, id, a, r, old, out) ==
    [ev |-> ev, fn |-> fn, id |-> id, a |-> a, r |-> r, old |-> old, out |-> out]

\* An activation: the function object called, the arguments it was called
\* with, and the locals of `inner` (rargs, preserved_values).  running marks
\* the activation of a coroutine that is being awaited, step how far an
\* activation made of several steps has come, and task the number of the
\* invocation in the activation of its caller.
FrameOf(fn, args, kwargs, running) ==
    [fn |-> fn, args |-> args, kwargs |-> kwargs, rargs |-> None_,
     preserved |-> <<>>, running |-> running, step |-> 0, task |-> 0]

\* The activation made by f(*args, **kwargs).
Frame(fn, args, kwargs) == FrameOf(fn, args, kwargs, FALSE)

\* getattr(wrapped, "__contract_preserver__", [lambda x: {}])
Preservers(wrapped) ==
    IF funcs[wrapped].has_preserver THEN funcs[wrapped].preservers ELSE <<"default">>

\* for preserver in ...: preserved_values.update(preserver(rargs))
RECURSIVE Gather(_, _, _, _, _, _)
Gather(ps, rargs, h, fn, acc, evs) ==
    IF ps = <<>>
    THEN [ok |-> TRUE, preserved |-> acc, events |-> evs]
    ELSE LET r == EvalPreserver(Head(ps), rargs, h)
             e == Ev("preserver", fn, Head(ps), rargs, None_, <<>>,
                     IF r.ok THEN "ok" ELSE "AttributeError")
         IN  IF ~r.ok
             THEN [ok |-> FALSE, preserved |-> acc, events |-> Append(evs, e)]
             ELSE Gather(Tail(ps), rargs, h, fn, r.value @@ acc, Append(evs, e))

\* What `inner` passes to the predicate and the preservers.
Rargs(fn, args, kwargs) ==
    IF funcs[fn].instance
    THEN IF Len(args) = 0
         THEN [ok |-> FALSE, value |-> None_, error |-> "IndexError", missing |-> ""]
         ELSE [ok |-> TRUE, value |-> args[1], error |-> "", missing |-> ""]
    ELSE BuildCall(funcs, funcs[fn].f, args, kwargs)

\* A wrapper that goes on to call f when its precondition is false.
PreconditionNeverRaises(c, pre) == FALSE

\* Whether the precondition check of `inner` raises on outcome pre.
PreconditionRaises(c, pre) == c.precondition /\ pre = "False"

\* `inner` of condition(...), from its entry to the call of f.
CondBefore(fn, args, kwargs, h) ==
    LET c == funcs[fn]
        bc == Rargs(fn, args, kwargs)
        rargs == bc.value
        pre == IF c.precondition
               THEN EvalPredicate(c.predicate, rargs, None_, <<>>, h)
               ELSE "skip"
        preEv == IF c.precondition
                 THEN <<Ev("pre", fn, c.predicate, rargs, None_, <<>>, pre)>>
                 ELSE <<>>
        h1 == IF c.precondition THEN AfterPredicate(c.predicate, rargs, h) ELSE h
        g == Gather(Preservers(c.wrapped), rargs, h1, fn, <<>>, <<>>)
    IN  IF ~bc.ok
        THEN [raise |-> TRUE, exc |-> OtherError(bc.error, bc.missing, fn),
              rargs |-> None_, preserved |-> <<>>, events |-> <<>>, heap |-> h]
        ELSE IF PreconditionRaises(c, pre)
        THEN [raise |-> TRUE, exc |-> PreconditionError(c.description, c.errno, fn),
              rargs |-> rargs, preserved |-> <<>>, events |-> preEv, heap |-> h1]
        ELSE IF pre \notin {"True", "False", "skip"}
        THEN [raise |-> TRUE, exc |-> OtherError(pre, c.predicate, fn),
              rargs |-> rargs, preserved |-> <<>>, events |-> preEv, heap |-> h1]
        ELSE IF ~g.ok
        THEN [raise |-> TRUE, exc |-> OtherError("AttributeError", "preserver", fn),
              rargs |-> rargs, preserved |-> <<>>, events |-> preEv \o g.events,
              heap |-> h1]
        ELSE [raise |-> FALSE, exc |-> NoExc,
              rargs |-> rargs, preserved |-> g.preserved,
              events |-> preEv \o g.events, heap |-> h1]

\* A wrapper that calls clean_up outside any try: its error escapes.
PostFailureCleanUpEscapes(c, fn, args) ==
    IF Truthy(c.clean_up)
    THEN IF CleanUpRaises(c.clean_up.id)
         THEN [exc |-> OtherError("Exception", CleanUpErrorText, fn),
               events |-> <<Ev("cleanup", fn, c.clean_up.id, TupleV(args),
                               None_, <<>>, "raise")>>]
         ELSE [exc |-> PostconditionError(c.description, c.errno, fn),
               events |-> <<Ev("cleanup", fn, c.clean_up.id, TupleV(args),
                               None_, <<>>, "ok")>>]
    ELSE [exc |-> PostconditionError(c.description, c.errno, fn), events |-> <<>>]

\* The error raised for a failed postcondition or invariant: clean_up is
\* called first when there is one, and its error is folded into the text.
PostFailure(c, fn, args) ==
    IF Truthy(c.clean_up)
    THEN IF CleanUpRaises(c.clean_up.id)
         THEN [exc |-> PostconditionError(
                           c.description \o <<". Clean up failed: ", CleanUpErrorText>>,
                           c.errno, fn),
               events |-> <<Ev("cleanup", fn, c.clean_up.id, TupleV(args),
                               None_, <<>>, "raise")>>]
         ELSE [exc |-> PostconditionError(c.description, c.errno, fn),
               events |-> <<Ev("cleanup", fn, c.clean_up.id, TupleV(args),
                               None_, <<>>, "ok")>>]
    ELSE [exc |-> PostconditionError(c.description, c.errno, fn), events |-> <<>>]

\* A wrapper that returns without looking at its postcondition.
CondAfterUnchecked(fn, fr, result, h) ==
    [raise |-> FALSE, exc |-> NoExc, events |-> <<>>]

\* An `inner` that keeps rargs and preserved_values on the function object:
\* every activation of it reads those of the oldest one.
CondAfterShared(fn, fr0, result, h) ==
    LET same == {k \in 1 .. Len(stack) : stack[k].fn = fn}
        fr == IF same = {} THEN fr0
              ELSE stack[CHOOSE k \in same : \A l \in same : k <= l]
        c == funcs[fn]
        ternary == ~c.instance /\ ArgCountOf(c.predicate) = 3
        old == IF ternary THEN fr.preserved ELSE <<>>
        check == IF c.instance
                 THEN EvalPredicate(c.predicate, fr.rargs, None_, <<>>, h)
                 ELSE IF c.postcondition
                 THEN EvalPredicate(c.predicate, fr.rargs, result, old, h)
                 ELSE "skip"
        postEv == IF check = "skip"
                  THEN <<>>
                  ELSE <<Ev("post", fn, c.predicate, fr.rargs,
                            IF c.instance THEN None_ ELSE result, old, check)>>
        failure == PostFailure(c, fn, fr.args)
    IN  IF check \in {"True", "skip"}
        THEN [raise |-> FALSE, exc |-> NoExc, events |-> postEv]
        ELSE IF check = "False"
        THEN [raise |-> TRUE, exc |-> failure.exc, events |-> postEv \o failure.events]
        ELSE [raise |-> TRUE, exc |-> OtherError(check, c.predicate, fn),
              events |-> postEv]

\* `inner` of condition(...), from the return of f to its own return.
CondAfter(fn, fr, result, h) ==
    LET c == funcs[fn]
        ternary == ~c.instance /\ ArgCountOf(c.predicate) = 3
        old == IF ternary THEN fr.preserved ELSE <<>>
        check == IF c.instance
                 THEN EvalPredicate(c.predicate, fr.rargs, None_, <<>>, h)
                 ELSE IF c.postcondition
                 THEN EvalPredicate(c.predicate, fr.rargs, result, old, h)
                 ELSE "skip"
        postEv == IF check = "skip"
                  THEN <<>>
                  ELSE <<Ev("post", fn, c.predicate, fr.rargs,
                            IF c.instance THEN None_ ELSE result, old, check)>>
        failure == PostFailure(c, fn, fr.args)
    IN  IF check \in {"True", "skip"}
        THEN [raise |-> FALSE, exc |-> NoExc, events |-> postEv]
        ELSE IF check = "False"
        THEN [raise |-> TRUE, exc |-> failure.exc, events |-> postEv \o failure.events]
        ELSE [raise |-> TRUE, exc |-> OtherError(check, c.predicate, fn),
              events |-> postEv]

\* Python's own binding of a call to the parameters of a `def`: the value
\* of every parameter, or the TypeError of a call the signature does not
\* admit.
PyBind(spec, args, kwargs) ==
    LET named == spec.named
        n == Len(named)
        pos(name) == CHOOSE k \in 1 .. n : named[k] = name
        names == {named[k] : k \in 1 .. n}
        kwnames == {spec.kwonly[k] : k \in 1 .. Len(spec.kwonly)}
        firstDef == n - Len(spec.defs)
        given(name) ==
            \/ name \in DOMAIN kwargs
            \/ name \in names /\ pos(name) <= Len(args)
        hasDefault(name) ==
            \/ name \in names /\ pos(name) > firstDef
            \/ name \in DOMAIN spec.kwonlydefs
        valueOf(name) ==
            IF name \in names /\ pos(name) <= Len(args) THEN args[pos(name)]
            ELSE IF name \in DOMAIN kwargs THEN kwargs[name]
            ELSE IF name \in names THEN spec.defs[pos(name) - firstDef]
            ELSE spec.kwonlydefs[name]
        tooMany == Len(args) > n /\ spec.vargs = ""
        twice == \E name \in names : pos(name) <= Len(args) /\ name \in DOMAIN kwargs
        unexpected == \E k \in DOMAIN kwargs :
                          k \notin names \cup kwnames /\ spec.varkw = ""
        missing == \E name \in names \cup kwnames : ~given(name) /\ ~hasDefault(name)
    IN  IF tooMany \/ twice \/ unexpected \/ missing
        THEN [ok |-> FALSE, value |-> <<>>]
        ELSE [ok |-> TRUE,
              value |-> [name \in names \cup kwnames |-> valueOf(name)]]

\* The run of a function written with `def`, called with args and kwargs.
BodyRun(fn, args, kwargs, h) ==
    LET b == funcs[fn]
        bound == PyBind(b.sig, args, kwargs)
        p == bound.value
        fail(type) == [raise |-> TRUE, exc |-> OtherError(type, b.body, fn),
                       heap |-> h, result |-> None_]
    IN  IF ~bound.ok
        THEN fail("TypeError")
        ELSE CASE b.body = "increment" ->
                    \* self.value += value; return self.value
                    IF p.self.t = "ref" /\ h.set
                    THEN [raise |-> FALSE, exc |-> NoExc,
                          heap |-> [h EXCEPT !.value = @ + p.value.n],
                          result |-> IntV(h.value + p.value.n)]
                    ELSE fail("AttributeError")
               [] b.body = "increment_broken" ->
                    \* if value == 2: self.value += 2
                    \* self.value += value; return self.value
                    IF p.self.t = "ref" /\ h.set
                    THEN LET extra == IF p.value.n = 2 THEN 2 ELSE 0
                         IN  [raise |-> FALSE, exc |-> NoExc,
                              heap |-> [h EXCEPT !.value = @ + extra + p.value.n],
                              result |-> IntV(h.value + extra + p.value.n)]
                    ELSE fail("AttributeError")
               [] b.body = "borrow" ->
                    \* (after the await) self.value += value; return self.value
                    IF p.self.t = "ref" /\ h.set
                    THEN [raise |-> FALSE, exc |-> NoExc,
                          heap |-> [h EXCEPT !.value = @ + p.value.n],
                          result |-> IntV(h.value + p.value.n)]
                    ELSE fail("AttributeError")
               [] b.body = "init" ->
                    \* self.value = value
                    IF p.self.t = "ref"
                    THEN [raise |-> FALSE, exc |-> NoExc,
                          heap |-> [h EXCEPT !.set = TRUE, !.value = p.value.n],
                          result |-> None_]
                    ELSE fail("AttributeError")
               [] b.body = "sum" ->
                    \* return sum(value)
                    IF IsIterable(p.value)
                    THEN [raise |-> FALSE, exc |-> NoExc,
                          heap |-> Traversed(p.value, h),
                          result |-> IntV(Sum(Items(p.value, h)))]
                    ELSE fail("TypeError")
               [] OTHER ->
                    \* return value
                    [raise |-> FALSE, exc |-> NoExc, heap |-> h,
                     result |-> IF "value" \in DOMAIN p THEN p.value ELSE None_]

\* What the body of an `async def` does to the object before its await.
BodyStart(fn, args, kwargs, h) ==
    IF funcs[fn].body = "borrow"
    THEN \* self.value -= value
         [h EXCEPT !.value = @ - PyBind(funcs[fn].sig, args, kwargs).value.value.n]
    ELSE h

Top == stack[Len(stack)]

\* Whether the activation runs the function's code: the call of a
\* coroutine function only makes a coroutine object, which runs when awaited.
Executes(fr) == ~funcs[fr.fn].is_async \/ fr.running
PhaseAfter(newStack) == IF newStack = <<>> THEN "done" ELSE "call"

\* An inner that waits at its entry while an invocation that is not the
\* running one is inside a condition made by invariant.
CondEnterExclusive ==
    /\ phase = "call" /\ ctl = "call" /\ stack # <<>>
    /\ funcs[Top.fn].kind = "condition"
    /\ Executes(Top)
    /\ \A i \in 1 .. Len(stack) :
          (funcs[stack[i].fn].kind = "condition" /\ funcs[stack[i].fn].instance) =>
              \A j \in i + 1 .. Len(stack) : funcs[stack[j].fn].kind # "caller"
    /\ LET r == CondBefore(Top.fn, Top.args, Top.kwargs, heap)
           waiting == [Top EXCEPT !.rargs = r.rargs, !.preserved = r.preserved]
       IN  /\ log' = log \o r.events
           /\ heap' = r.heap
           /\ IF r.raise
              THEN /\ stack' = SubSeq(stack, 1, Len(stack) - 1)
                   /\ ctl' = "raise"
                   /\ exc' = r.exc
                   /\ phase' = PhaseAfter(stack')
              ELSE /\ stack' = Append([stack EXCEPT ![Len(stack)] = waiting],
                                      Frame(funcs[Top.fn].f, Top.args, Top.kwargs))
                   /\ ctl' = "call"
                   /\ UNCHANGED <<exc, phase>>
    /\ UNCHANGED <<funcs, classes, ret, called>>

\* inner(*args, **kwargs) of a condition: entry, precondition, preservers,
\* and the call of f.
CondEnter ==
    /\ phase = "call" /\ ctl = "call" /\ stack # <<>>
    /\ funcs[Top.fn].kind = "condition"
    /\ Executes(Top)
    /\ LET r == CondBefore(Top.fn, Top.args, Top.kwargs, heap)
           waiting == [Top EXCEPT !.rargs = r.rargs, !.preserved = r.preserved]
       IN  /\ log' = log \o r.events
           /\ heap' = r.heap
           /\ IF r.raise
              THEN /\ stack' = SubSeq(stack, 1, Len(stack) - 1)
                   /\ ctl' = "raise"
                   /\ exc' = r.exc
                   /\ phase' = PhaseAfter(stack')
              ELSE /\ stack' = Append([stack EXCEPT ![Len(stack)] = waiting],
                                      Frame(funcs[Top.fn].f, Top.args, Top.kwargs))
                   /\ ctl' = "call"
                   /\ UNCHANGED <<exc, phase>>
    /\ UNCHANGED <<funcs, classes, ret, called>>

\* inner(*args, **kwargs) of a condition: f has returned.
CondExit ==
    /\ phase = "call" /\ ctl = "return" /\ stack # <<>>
    /\ funcs[Top.fn].kind = "condition"
    /\ funcs[Top.fn].is_async => Top.step = 1
    /\ LET r == CondAfter(Top.fn, Top, ret, heap)
       IN  /\ log' = log \o r.events
           /\ stack' = SubSeq(stack, 1, Len(stack) - 1)
           /\ phase' = PhaseAfter(stack')
           /\ IF r.raise
              THEN ctl' = "raise" /\ exc' = r.exc /\ ret' = None_
              ELSE ctl' = "return" /\ UNCHANGED <<exc, ret>>
    /\ UNCHANGED <<funcs, classes, heap, called>>

\* inner(*args, **kwargs) of preserve: return f(*args, **kwargs)
PreserveEnter ==
    /\ phase = "call" /\ ctl = "call" /\ stack # <<>>
    /\ funcs[Top.fn].kind = "preserve"
    /\ stack' = Append(stack, Frame(funcs[Top.fn].f, Top.args, Top.kwargs))
    /\ UNCHANGED <<funcs, classes, heap, phase, ctl, ret, exc, called, log>>

PreserveExit ==
    /\ phase = "call" /\ ctl = "return" /\ stack # <<>>
    /\ funcs[Top.fn].kind = "preserve"
    /\ stack' = SubSeq(stack, 1, Len(stack) - 1)
    /\ phase' = PhaseAfter(stack')
    /\ UNCHANGED <<funcs, classes, heap, ctl, ret, exc, called, log>>

\* inner(*args, **kwargs) of transform:
\* rargs = transformer(build_call(f, *args, **kwargs)); return f(**rargs._asdict())
TransformEnter ==
    /\ phase = "call" /\ ctl = "call" /\ stack # <<>>
    /\ funcs[Top.fn].kind = "transform"
    /\ LET t == funcs[Top.fn]
           bc == BuildCall(funcs, t.f, Top.args, Top.kwargs)
           r == EvalTransformer(t.transformer, bc.value, heap)
           raised(e) == /\ stack' = SubSeq(stack, 1, Len(stack) - 1)
                        /\ ctl' = "raise"
                        /\ exc' = e
                        /\ phase' = PhaseAfter(stack')
       IN  IF ~bc.ok
           THEN /\ raised(OtherError(bc.error, bc.missing, Top.fn))
                /\ UNCHANGED <<heap, log>>
           ELSE /\ log' = Append(log, Ev("transform", Top.fn, t.transformer,
                                         bc.value, r.value, <<>>, r.out))
                /\ heap' = r.heap
                /\ IF r.out # "ok"
                   THEN raised(OtherError(r.out, t.transformer, Top.fn))
                   ELSE /\ stack' = Append(stack, Frame(t.f, <<>>, r.value.m))
                        /\ UNCHANGED <<ctl, exc, phase>>
    /\ UNCHANGED <<funcs, classes, ret, called>>

TransformExit ==
    /\ phase = "call" /\ ctl = "return" /\ stack # <<>>
    /\ funcs[Top.fn].kind = "transform"
    /\ stack' = SubSeq(stack, 1, Len(stack) - 1)
    /\ phase' = PhaseAfter(stack')
    /\ UNCHANGED <<funcs, classes, heap, ctl, ret, exc, called, log>>

\* The function written with `def` runs.
Body ==
    /\ phase = "call" /\ ctl = "call" /\ stack # <<>>
    /\ funcs[Top.fn].kind = "function"
    /\ ~funcs[Top.fn].is_async
    /\ funcs[Top.fn].body # "delegate"
    /\ LET r == BodyRun(Top.fn, Top.args, Top.kwargs, heap)
       IN  /\ heap' = r.heap
           /\ log' = Append(log, Ev("body", Top.fn, funcs[Top.fn].body,
                                    TupleV(Top.args), r.result,
                                    [heap |-> heap, kwargs |-> Top.kwargs],
                                    IF r.raise THEN r.exc.type ELSE "ok"))
           /\ stack' = SubSeq(stack, 1, Len(stack) - 1)
           /\ phase' = PhaseAfter(stack')
           /\ IF r.raise
              THEN ctl' = "raise" /\ exc' = r.exc /\ UNCHANGED ret
              ELSE ctl' = "return" /\ ret' = r.result /\ UNCHANGED exc
    /\ UNCHANGED <<funcs, classes, called>>

\* A wrapper that checks its postcondition in a `finally`, also when f raised.
PropagateChecking ==
    /\ phase = "call" /\ ctl = "raise" /\ stack # <<>>
    /\ funcs[Top.fn].kind # "caller"
    /\ stack' = SubSeq(stack, 1, Len(stack) - 1)
    /\ phase' = PhaseAfter(stack')
    /\ log' = IF funcs[Top.fn].kind = "condition"
              THEN log \o CondAfter(Top.fn, Top, None_, heap).events
              ELSE log
    /\ UNCHANGED <<funcs, classes, heap, ctl, ret, exc, called>>

\* A wrapper that catches what f raises, calls its clean-up and raises its
\* own error in its place.
PropagateWrapping ==
    /\ phase = "call" /\ ctl = "raise" /\ stack # <<>>
    /\ funcs[Top.fn].kind # "caller"
    /\ stack' = SubSeq(stack, 1, Len(stack) - 1)
    /\ phase' = PhaseAfter(stack')
    /\ IF funcs[Top.fn].kind = "condition"
       THEN LET failure == PostFailure(funcs[Top.fn], Top.fn, Top.args)
            IN  exc' = failure.exc /\ log' = log \o failure.events
       ELSE UNCHANGED <<exc, log>>
    /\ UNCHANGED <<funcs, classes, heap, ctl, ret, called>>

\* An exception raised by the callee passes through a frame: no wrapper
\* catches what f raises.
Propagate ==
    /\ phase = "call" /\ ctl = "raise" /\ stack # <<>>
    /\ funcs[Top.fn].kind # "caller"
    /\ stack' = SubSeq(stack, 1, Len(stack) - 1)
    /\ phase' = PhaseAfter(stack')
    /\ UNCHANGED <<funcs, classes, heap, ctl, ret, exc, called, log>>

-----------------------------------------------------------------------------
(* Decoration.                                                             *)

ErrnoValues == {0, 7}
RequireShapes == {"dp", "p", "pe", "dpe"}
EnsureShapes == {"dp", "p", "pe", "dpe", "dpc", "pc", "pec", "dpec"}
InvariantShapes == {"dp", "p"}

\* The argument tuple of a decorator call of the given shape: d(escription),
\* p(redicate), e(rrno), c(lean-up), padded with None.
ShapeArgs(shape, d, p, e, c) ==
    CASE shape = "dp" -> <<d, p, None_, None_>>
      [] shape = "p" -> <<p, None_, None_, None_>>
      [] shape = "pe" -> <<p, e, None_, None_>>
      [] shape = "dpe" -> <<d, p, e, None_>>
      [] shape = "dpc" -> <<d, p, c, None_>>
      [] shape = "pc" -> <<p, c, None_, None_>>
      [] shape = "pec" -> <<p, e, c, None_>>
      [] shape = "dpec" -> <<d, p, e, c>>

\* The description a decorator is given: it names the predicate and the
\* place of the decorator in the stack.
DescriptionFor(pid) == StrV(<<pid, "#", ToString(Len(funcs))>>)

\* The function the decorators of this model are written above.
IsTarget(name) == classes[1][name].kind = "function"

\* The description of every condition types makes.
TypesDescription == StrV(<<"the types of arguments must be valid">>)

\* @types(**requirements) above the target
AttachTypes(cap) ==
    /\ phase = "define" /\ Len(funcs) - 1 < cap
    /\ \E name \in Names, pid \in TypesPredicates :
          /\ IsTarget(name)
          /\ ConditionAccepts(TypesDescription, FnV(pid), TRUE, FALSE, FALSE)
          /\ funcs' = Append(funcs,
                 ConditionInner(funcs, classes[1][name].fn, TypesDescription, FnV(pid),
                                TRUE, FALSE, FALSE, IntV(0), None_, <<FnV(pid)>>))
          /\ classes' = [classes EXCEPT ![1][name].fn = Len(funcs) + 1]
    /\ UNCHANGED <<heap, phase, stack, ctl, ret, exc, called, log>>

\* @require(...) above the target
AttachRequire(shapes, preds, cap) ==
    /\ phase = "define" /\ Len(funcs) - 1 < cap
    /\ \E name \in Names, shape \in shapes, pid \in preds, e \in ErrnoValues :
          LET a == ShapeArgs(shape, DescriptionFor(pid), FnV(pid), IntV(e), None_)
              c == Require(a[1], a[2], a[3])
              f == classes[1][name].fn
          IN  /\ IsTarget(name)
              /\ RequireAccepts(a[1], a[2], a[3])
              /\ ConditionAccepts(c.description, c.predicate, TRUE, FALSE, FALSE)
              /\ funcs' = Append(funcs,
                     ConditionInner(funcs, f, c.description, c.predicate,
                                    TRUE, FALSE, FALSE, c.errno, c.clean_up, a))
              /\ classes' = [classes EXCEPT ![1][name].fn = Len(funcs) + 1]
    /\ UNCHANGED <<heap, phase, stack, ctl, ret, exc, called, log>>

\* @ensure(...) above the target
AttachEnsure(shapes, preds, cap) ==
    /\ phase = "define" /\ Len(funcs) - 1 < cap
    /\ \E name \in Names, shape \in shapes, pid \in preds,
          e \in ErrnoValues, cl \in CleanUps :
          LET a == ShapeArgs(shape, DescriptionFor(pid), FnV(pid), IntV(e), FnV(cl))
              c == Ensure(a[1], a[2], a[3], a[4])
              f == classes[1][name].fn
          IN  /\ IsTarget(name)
              /\ EnsureAccepts(a[1], a[2], a[3], a[4])
              /\ ConditionAccepts(c.description, c.predicate, FALSE, TRUE, FALSE)
              /\ funcs' = Append(funcs,
                     ConditionInner(funcs, f, c.description, c.predicate,
                                    FALSE, TRUE, FALSE, c.errno, c.clean_up, a))
              /\ classes' = [classes EXCEPT ![1][name].fn = Len(funcs) + 1]
    /\ UNCHANGED <<heap, phase, stack, ctl, ret, exc, called, log>>

\* @preserve(lambda args: {"old_value": args.self.value}) above the target
AttachPreserve(cap) ==
    /\ phase = "define" /\ Len(funcs) - 1 < cap
    /\ \E name \in Names :
          LET f == classes[1][name].fn
              inner == PreserveInner(funcs, f, "old_value")
          IN  /\ IsTarget(name)
              /\ funcs' = Append(RecordPreserver(funcs, inner.wrapped, "old_value"),
                                 inner)
              /\ classes' = [classes EXCEPT ![1][name].fn = Len(funcs) + 1]
    /\ UNCHANGED <<heap, phase, stack, ctl, ret, exc, called, log>>

\* @transform(...) above the target
AttachTransform(cap) ==
    /\ phase = "define" /\ Len(funcs) - 1 < cap
    /\ \E name \in Names, tid \in Transformers :
          /\ IsTarget(name)
          /\ funcs' = Append(funcs, TransformInner(funcs, classes[1][name].fn, tid))
          /\ classes' = [classes EXCEPT ![1][name].fn = Len(funcs) + 1]
    /\ UNCHANGED <<heap, phase, stack, ctl, ret, exc, called, log>>

\* An invariant(c) that sets the checked members on c itself.
ApplyInvariantInPlace ==
    /\ phase \in {"define", "derive"} /\ Len(classes) - 1 < MaxInvariants
    /\ \E shape \in InvariantShapes, pid \in InvariantPredicates :
          LET a == ShapeArgs(shape, StrV(<<pid, "#", ToString(Len(classes))>>),
                             FnV(pid), None_, None_)
              inv == Invariant(a[1], a[2])
              c == classes[Len(classes)]
              w == WrapMembers(DirOrder, c, funcs, c, inv)
          IN  /\ \A name \in Names :
                    Check(name, c[name]) =>
                        ConditionAccepts(inv.desc, inv.predicate,
                                         InvariantPrecondition(name), TRUE, TRUE)
              /\ funcs' = w.funcs
              /\ classes' = Append([classes EXCEPT ![Len(classes)] = w.cls], w.cls)
    /\ phase' = "derive"
    /\ UNCHANGED <<heap, stack, ctl, ret, exc, called, log>>

\* @invariant(...) above the class: InvariantContractor is made from the
\* newest class.
ApplyInvariant ==
    /\ phase \in {"define", "derive"} /\ Len(classes) - 1 < MaxInvariants
    /\ \E shape \in InvariantShapes, pid \in InvariantPredicates :
          LET a == ShapeArgs(shape, StrV(<<pid, "#", ToString(Len(classes))>>),
                             FnV(pid), None_, None_)
              inv == Invariant(a[1], a[2])
              c == classes[Len(classes)]
              w == WrapMembers(DirOrder, c, funcs, c, inv)
          IN  /\ \A name \in Names :
                    Check(name, c[name]) =>
                        ConditionAccepts(inv.desc, inv.predicate,
                                         InvariantPrecondition(name), TRUE, TRUE)
              /\ funcs' = w.funcs
              /\ classes' = Append(classes, w.cls)
    /\ phase' = "derive"
    /\ UNCHANGED <<heap, stack, ctl, ret, exc, called, log>>

\* The arguments Python binds when member m is called on an instance with
\* the one argument n.
BoundArgs(m, n) ==
    CASE m.kind = "function" -> <<RefV, IntV(n)>>
      [] m.kind = "classmethod" -> <<ClsV, IntV(n)>>
      [] OTHER -> <<IntV(n)>>

\* The caller invokes a member on an instance of the newest class (for
\* __init__: constructs an instance); a data attribute is only read.
StartCall ==
    /\ phase \in {"define", "derive"}
    /\ \E name \in Names, n \in ArgValues :
          LET m == classes[Len(classes)][name]
          IN  /\ m.kind # "absent"
              /\ called' = [name |-> name, kind |-> classes[1][name].kind]
              /\ heap' = IF name = N_init THEN [heap EXCEPT !.set = FALSE, !.value = 0] ELSE heap
              /\ IF m.kind = "data"
                 THEN /\ phase' = "done" /\ ctl' = "return" /\ ret' = IntV(0)
                      /\ stack' = <<>>
                 ELSE /\ phase' = "call" /\ ctl' = "call" /\ ret' = None_
                      /\ stack' = <<Frame(m.fn, BoundArgs(m, n), NoKwargs)>>
    /\ log' = <<>>
    /\ UNCHANGED <<funcs, classes, exc>>

-----------------------------------------------------------------------------
(* Coroutines.  The callers are coroutines `main` that each await one call *)
(* of the decorated function; the event loop runs one of them at a time    *)
(* and changes to another only while the running one waits in its body.    *)
(* The activations of one invocation are contiguous on stack, above the    *)
(* activation of its caller, and the running invocation is the topmost.    *)

\* async def main(): return await f(*args)
CallerFunction ==
    [DefFunction("main", Positional(<<>>), TRUE) EXCEPT !.kind = "caller"]

CallerFrame(fn, t, args) == [FrameOf(fn, args, NoKwargs, TRUE) EXCEPT !.task = t]

\* The positions on stack of the callers' activations.
CallerIdx == {i \in 1 .. Len(stack) : funcs[stack[i].fn].kind = "caller"}

\* The invocation whose activations are topmost in st.
RunningTask(st) ==
    LET cs == {i \in 1 .. Len(st) : funcs[st[i].fn].kind = "caller"}
    IN  st[CHOOSE i \in cs : \A j \in cs : j <= i].task

\* The event loop's decisions, as entries of log: what it did and the
\* invocation that runs from there on.
Sched(what, t, args) == Ev("sched", 0, what, IntV(t), TupleV(args), <<>>, "ok")

Spawned == {i \in 1 .. Len(log) : log[i].ev = "sched" /\ log[i].id = "spawn"}

\* f(*args, **kwargs) for a coroutine function f: the arguments are bound,
\* and the coroutine object is returned without running any of f.
CoroCall ==
    /\ phase = "call" /\ ctl = "call" /\ stack # <<>>
    /\ funcs[Top.fn].kind \in {"function", "condition"}
    /\ ~Executes(Top)
    /\ stack' = SubSeq(stack, 1, Len(stack) - 1)
    /\ IF /\ funcs[Top.fn].kind = "function"
          /\ ~PyBind(funcs[Top.fn].sig, Top.args, Top.kwargs).ok
       THEN /\ ctl' = "raise"
            /\ exc' = OtherError("TypeError", funcs[Top.fn].body, Top.fn)
            /\ UNCHANGED ret
       ELSE /\ ctl' = "return"
            /\ ret' = CoroV(Top.fn, Top.args, Top.kwargs)
            /\ UNCHANGED exc
    /\ UNCHANGED <<funcs, classes, heap, phase, called, log>>

\* result = await f(*args, **kwargs) in the `async def inner` of a
\* condition: f has returned the coroutine object, which now runs.
AwaitCoro ==
    /\ phase = "call" /\ ctl = "return" /\ stack # <<>>
    /\ funcs[Top.fn].kind = "condition" /\ funcs[Top.fn].is_async
    /\ Top.step = 0 /\ ret.t = "coro"
    /\ stack' = Append([stack EXCEPT ![Len(stack)].step = 1],
                       FrameOf(ret.fn, ret.args, ret.kwargs, TRUE))
    /\ ctl' = "call"
    /\ ret' = None_
    /\ UNCHANGED <<funcs, classes, heap, phase, exc, called, log>>

\* The caller awaits what its call returned.
AwaitTop ==
    /\ phase = "call" /\ ctl = "return" /\ stack # <<>>
    /\ funcs[Top.fn].kind = "caller"
    /\ Top.step = 0 /\ ret.t = "coro"
    /\ stack' = Append([stack EXCEPT ![Len(stack)].step = 1],
                       FrameOf(ret.fn, ret.args, ret.kwargs, TRUE))
    /\ ctl' = "call"
    /\ ret' = None_
    /\ UNCHANGED <<funcs, classes, heap, phase, exc, called, log>>

\* The body of the `async def` starts and waits (await asyncio.sleep(...)).
BodyBegin ==
    /\ phase = "call" /\ ctl = "call" /\ stack # <<>>
    /\ funcs[Top.fn].kind = "function" /\ funcs[Top.fn].is_async
    /\ Top.running /\ Top.step = 0
    /\ stack' = [stack EXCEPT ![Len(stack)].step = 1]
    /\ ctl' = "suspended"
    /\ heap' = BodyStart(Top.fn, Top.args, Top.kwargs, heap)
    /\ log' = Append(log, Ev("begin", Top.fn, funcs[Top.fn].body, TupleV(Top.args),
                             None_, [heap |-> heap, kwargs |-> Top.kwargs], "ok"))
    /\ UNCHANGED <<funcs, classes, phase, ret, exc, called>>

\* The wait is over: the rest of the body runs and returns.
BodyFinish ==
    /\ phase = "call" /\ ctl = "suspended" /\ stack # <<>>
    /\ LET r == BodyRun(Top.fn, Top.args, Top.kwargs, heap)
       IN  /\ heap' = r.heap
           /\ log' = Append(log, Ev("body", Top.fn, funcs[Top.fn].body,
                                    TupleV(Top.args), r.result,
                                    [heap |-> heap, kwargs |-> Top.kwargs],
                                    IF r.raise THEN r.exc.type ELSE "ok"))
           /\ stack' = SubSeq(stack, 1, Len(stack) - 1)
           /\ IF r.raise
              THEN ctl' = "raise" /\ exc' = r.exc /\ UNCHANGED ret
              ELSE ctl' = "return" /\ ret' = r.result /\ UNCHANGED exc
    /\ UNCHANGED <<funcs, classes, phase, called>>

\* A body that catches the cancellation and returns None.
CancelReturns ==
    /\ phase = "call" /\ ctl = "suspended" /\ stack # <<>>
    /\ stack' = SubSeq(stack, 1, Len(stack) - 1)
    /\ ctl' = "return"
    /\ ret' = None_
    /\ log' = Append(log, Ev("cancel", Top.fn, funcs[Top.fn].body, TupleV(Top.args),
                             None_, <<>>, "CancelledError"))
    /\ UNCHANGED <<funcs, classes, heap, phase, exc, called>>

\* The invocation is cancelled while its body waits: CancelledError is
\* raised at the await.
Cancel ==
    /\ phase = "call" /\ ctl = "suspended" /\ stack # <<>>
    /\ stack' = SubSeq(stack, 1, Len(stack) - 1)
    /\ ctl' = "raise"
    /\ exc' = OtherError("CancelledError", funcs[Top.fn].body, Top.fn)
    /\ log' = Append(log, Ev("cancel", Top.fn, funcs[Top.fn].body, TupleV(Top.args),
                             None_, <<>>, "CancelledError"))
    /\ UNCHANGED <<funcs, classes, heap, phase, ret, called>>

\* The first caller starts: it calls the method on the instance.
AsyncCall ==
    /\ phase \in {"define", "derive"}
    /\ \E name \in Names, n \in 1 .. MaxAsyncArg :
          LET m == classes[Len(classes)][name]
              args == BoundArgs(m, n)
              main == Len(funcs) + 1
          IN  /\ m.kind = "function"
              /\ funcs' = Append(funcs, CallerFunction)
              /\ called' = [name |-> name, kind |-> m.kind]
              /\ stack' = <<CallerFrame(main, 1, args), Frame(m.fn, args, NoKwargs)>>
              /\ log' = <<Sched("spawn", 1, args)>>
    /\ phase' = "call" /\ ctl' = "call" /\ ret' = None_
    /\ UNCHANGED <<classes, heap, exc>>

\* Another caller starts while the running invocation waits.
Spawn ==
    /\ phase = "call" /\ ctl = "suspended"
    /\ Cardinality(Spawned) < MaxTasks
    /\ \E n \in 1 .. MaxAsyncArg :
          LET m == classes[Len(classes)][called.name]
              args == BoundArgs(m, n)
              t == Cardinality(Spawned) + 1
          IN  /\ stack' = stack \o <<CallerFrame(stack[1].fn, t, args),
                                     Frame(m.fn, args, NoKwargs)>>
              /\ log' = Append(log, Sched("spawn", t, args))
    /\ ctl' = "call"
    /\ UNCHANGED <<funcs, classes, heap, phase, ret, exc, called>>

\* The event loop resumes another waiting invocation (one that it did not
\* just leave: the invocation it resumes runs before it changes again).
Switch ==
    /\ phase = "call" /\ ctl = "suspended"
    /\ log[Len(log)].id # "switch"
    /\ \E i \in CallerIdx :
          LET above == {j \in CallerIdx : j > i}
          IN  /\ above # {}
              /\ LET e == (CHOOSE j \in above : \A l \in above : j <= l) - 1
                 IN  /\ stack' = SubSeq(stack, 1, i - 1) \o
                                  SubSeq(stack, e + 1, Len(stack)) \o
                                  SubSeq(stack, i, e)
                     /\ log' = Append(log, Sched("switch", stack[i].task, stack[i].args))
    /\ UNCHANGED <<funcs, classes, heap, phase, ctl, ret, exc, called>>

\* The caller's await is over, with a result or an error: the invocation
\* ends, and the event loop resumes a waiting one if there is any.
TaskFinish ==
    /\ phase = "call" /\ stack # <<>>
    /\ funcs[Top.fn].kind = "caller"
    /\ \/ ctl = "raise"
       \/ ctl = "return" /\ (ret.t # "coro" \/ Top.step = 1)
    /\ LET rest == SubSeq(stack, 1, Len(stack) - 1)
           outcome == Ev("outcome", Top.fn, IF ctl = "raise" THEN exc.type ELSE "return",
                         IntV(Top.task), IF ctl = "raise" THEN None_ ELSE ret, <<>>,
                         IF ctl = "raise" THEN exc.type ELSE "ok")
       IN  /\ stack' = rest
           /\ IF rest = <<>>
              THEN /\ phase' = "done"
                   /\ log' = Append(log, outcome)
                   /\ UNCHANGED <<ctl, ret, exc>>
              ELSE /\ phase' = "call"
                   /\ ctl' = "suspended" /\ ret' = None_ /\ exc' = NoExc
                   /\ log' = log \o <<outcome,
                                       Sched("resume", RunningTask(rest),
                                             rest[Len(rest)].args)>>
    /\ UNCHANGED <<funcs, classes, heap, called>>

-----------------------------------------------------------------------------
(* Specifications.                                                         *)

MemberKinds == {"function", "classmethod", "staticmethod", "data"}

NamedOf(kind) ==
    CASE kind = "function" -> <<"self", "value">>
      [] kind = "classmethod" -> <<"cls", "value">>
      [] OTHER -> <<"value">>

BodyOf(name, kind, body) ==
    IF kind # "function" THEN "noop"
    ELSE IF name = N_init THEN "init" ELSE body

\* A class with the one member name of the given kind, and an instance of it.
InitWith(members, bodies, values) ==
    /\ \E mc \in members, body \in bodies, v \in values :
          /\ funcs = IF mc[2] = "data"
                     THEN <<>>
                     ELSE <<NewFunction(BodyOf(mc[1], mc[2], body), NamedOf(mc[2]))>>
          /\ classes = <<[name \in Names |->
                            IF name = mc[1]
                            THEN [kind |-> mc[2], fn |-> IF mc[2] = "data" THEN 0 ELSE 1]
                            ELSE Absent]>>
          /\ heap = [set |-> TRUE, value |-> v, spent |-> FALSE]
    /\ phase = "define"
    /\ stack = <<>>
    /\ ctl = "idle"
    /\ ret = None_
    /\ exc = NoExc
    /\ called = [name |-> <<>>, kind |-> "none"]
    /\ log = <<>>

Run == CondEnter \/ CondExit \/ PreserveEnter \/ PreserveExit \/ Body \/ Propagate

\* A function under up to MaxLayers decorators, each given a description
\* and a predicate.
Init ==
    InitWith({<<N_increment, "function">>}, {"increment", "increment_broken"},
             InitValues)

Next ==
    \/ AttachRequire({"dp"}, UnaryPredicates, MaxLayers)
    \/ AttachEnsure({"dp"}, PostPredicates, MaxLayers)
    \/ AttachPreserve(MaxLayers)
    \/ StartCall
    \/ Run

Spec == Init /\ [][Next]_vars

\* A function under up to MaxFormLayers decorators of every argument shape.
InitForms == InitWith({<<N_increment, "function">>}, {"increment"}, {0})

NextForms ==
    \/ AttachRequire(RequireShapes, {"pos"}, MaxFormLayers)
    \/ AttachEnsure(EnsureShapes, {"resPos"}, MaxFormLayers)
    \/ AttachPreserve(MaxFormLayers)
    \/ StartCall
    \/ Run

SpecForms == InitForms /\ [][NextForms]_vars

\* A class with one member, up to MaxMethodLayers decorators on it when it
\* is a method, and up to MaxInvariants invariants on the class.
Members ==
    {mc \in Names \X MemberKinds : mc[1] = N_init => mc[2] = "function"}

InitInv == InitWith(Members, {"increment"}, InitValues)

NextInv ==
    \/ AttachEnsure({"dp"}, {"incremented"}, MaxMethodLayers)
    \/ AttachPreserve(MaxMethodLayers)
    \/ ApplyInvariant
    \/ StartCall
    \/ Run

SpecInv == InitInv /\ [][NextInv]_vars

\* The lists of at most n items.
RECURSIVE ItemSeqs(_)
ItemSeqs(n) ==
    IF n = 0 THEN {<<>>}
    ELSE LET shorter == ItemSeqs(n - 1)
         IN  shorter \cup {Append(q, x) : q \in shorter, x \in 0 .. MaxItem}

\* The arguments handed to my_func: a list, or a generator of the same items.
IterableValues == {IterV(q) : q \in ItemSeqs(MaxItems)} \cup
                  {ListV(q) : q \in ItemSeqs(MaxItems)}

\* The caller calls the function with one value, positionally or by name.
CallFunction(values) ==
    /\ phase = "define"
    /\ \E name \in Names, v \in values, byName \in BOOLEAN :
          LET m == classes[Len(classes)][name]
              args == IF byName THEN <<>> ELSE <<v>>
              kwargs == IF byName THEN [k \in {"value"} |-> v] ELSE NoKwargs
          IN  /\ m.kind = "function"
              /\ called' = [name |-> name, kind |-> m.kind,
                            args |-> args, kwargs |-> kwargs, value |-> v]
              /\ stack' = <<Frame(m.fn, args, kwargs)>>
    /\ phase' = "call" /\ ctl' = "call" /\ ret' = None_
    /\ heap' = [heap EXCEPT !.spent = FALSE]
    /\ log' = <<>>
    /\ UNCHANGED <<funcs, classes, exc>>

\* def my_func(value) and def my_func(value, *rest), each returning sum(value)
SumSignatures == {Positional(<<"value">>),
                  Signature(<<"value">>, <<>>, "rest", <<>>, <<>>, "")}

\* my_func under up to MaxTransformLayers decorators, transform among them.
InitTransform ==
    /\ \E sig \in SumSignatures : funcs = <<DefFunction("sum", sig, FALSE)>>
    /\ classes = <<[name \in Names |->
                      IF name = N_increment THEN [kind |-> "function", fn |-> 1]
                      ELSE Absent]>>
    /\ heap = [set |-> FALSE, value |-> 0, spent |-> FALSE]
    /\ phase = "define"
    /\ stack = <<>>
    /\ ctl = "idle"
    /\ ret = None_
    /\ exc = NoExc
    /\ called = [name |-> <<>>, kind |-> "none"]
    /\ log = <<>>

NextTransform ==
    \/ AttachTransform(MaxTransformLayers)
    \/ AttachRequire({"dp"}, IterPredicates, MaxTransformLayers)
    \/ AttachEnsure({"dp"}, {"resPos"}, MaxTransformLayers)
    \/ AttachPreserve(MaxTransformLayers)
    \/ CallFunction(IterableValues)
    \/ Run
    \/ TransformEnter
    \/ TransformExit

SpecTransform == InitTransform /\ [][NextTransform]_vars

\* async def increment(self, value) under up to MaxAsyncLayers decorators,
\* called by up to MaxTasks callers.
InitAsync ==
    /\ funcs = <<DefFunction("increment", Positional(<<"self", "value">>), TRUE)>>
    /\ classes = <<[name \in Names |->
                      IF name = N_increment THEN [kind |-> "function", fn |-> 1]
                      ELSE Absent]>>
    /\ heap = [set |-> TRUE, value |-> 0, spent |-> FALSE]
    /\ phase = "define"
    /\ stack = <<>>
    /\ ctl = "idle"
    /\ ret = None_
    /\ exc = NoExc
    /\ called = [name |-> <<>>, kind |-> "none"]
    /\ log = <<>>

NextAsync ==
    \/ AttachRequire({"dp"}, {"pos"}, MaxAsyncLayers)
    \/ AttachEnsure({"dp", "dpc"}, AsyncPostPredicates, MaxAsyncLayers)
    \/ AttachPreserve(MaxAsyncLayers)
    \/ AttachTransform(MaxAsyncLayers)
    \/ AsyncCall
    \/ Spawn
    \/ Switch
    \/ TaskFinish
    \/ AwaitTop
    \/ AwaitCoro
    \/ CoroCall
    \/ BodyBegin
    \/ BodyFinish
    \/ Cancel
    \/ CondEnter
    \/ CondExit
    \/ PreserveEnter
    \/ PreserveExit
    \/ TransformEnter
    \/ TransformExit
    \/ Propagate

SpecAsync == InitAsync /\ [][NextAsync]_vars

\* A class with the method
\*     async def borrow(self, value):
\*         self.value -= value; await ...; self.value += value
\* under up to MaxInvariants invariants, called on one instance by up to
\* MaxTasks callers.
InitShared ==
    /\ funcs = <<DefFunction("borrow", Positional(<<"self", "value">>), TRUE)>>
    /\ classes = <<[name \in Names |->
                      IF name = N_increment THEN [kind |-> "function", fn |-> 1]
                      ELSE Absent]>>
    /\ heap = [set |-> TRUE, value |-> 0, spent |-> FALSE]
    /\ phase = "define"
    /\ stack = <<>>
    /\ ctl = "idle"
    /\ ret = None_
    /\ exc = NoExc
    /\ called = [name |-> <<>>, kind |-> "none"]
    /\ log = <<>>

NextShared ==
    \/ ApplyInvariant
    \/ AsyncCall
    \/ Spawn
    \/ Switch
    \/ TaskFinish
    \/ AwaitTop
    \/ AwaitCoro
    \/ CoroCall
    \/ BodyBegin
    \/ BodyFinish
    \/ CondEnter
    \/ CondExit
    \/ Propagate

SpecShared == InitShared /\ [][NextShared]_vars

\* self.increment, read in the class the instance was made from.
LookUp(name) == classes[Len(classes)][name]

\* self.increment, read in the class as it was written.
LookUpBase(name) == classes[1][name]

\* def transfer(self, value): self.value -= value; return self.increment(value)
\* from its entry to the call of self.increment.
DelegateCalls(m) ==
    /\ phase = "call" /\ ctl = "call" /\ stack # <<>>
    /\ funcs[Top.fn].kind = "function" /\ funcs[Top.fn].body = "delegate"
    /\ Top.step = 0
    /\ LET bound == PyBind(funcs[Top.fn].sig, Top.args, Top.kwargs)
       IN  /\ bound.ok
           /\ heap' = [heap EXCEPT !.value = @ - bound.value.value.n]
           /\ stack' = Append([stack EXCEPT ![Len(stack)].step = 1],
                              Frame(m.fn, <<bound.value.self, bound.value.value>>,
                                    NoKwargs))
           /\ log' = Append(log, Ev("begin", Top.fn, "delegate", TupleV(Top.args),
                                    None_, [heap |-> heap, kwargs |-> Top.kwargs],
                                    "ok"))
    /\ UNCHANGED <<funcs, classes, phase, ctl, ret, exc, called>>

\* A body that calls the function of the class as it was written.
DelegateBeginDirect == DelegateCalls(LookUpBase(N_increment))

DelegateBegin == DelegateCalls(LookUp(N_increment))

\* self.increment(value) has returned: transfer returns its result.
DelegateEnd ==
    /\ phase = "call" /\ ctl = "return" /\ stack # <<>>
    /\ funcs[Top.fn].kind = "function" /\ funcs[Top.fn].body = "delegate"
    /\ Top.step = 1
    /\ stack' = SubSeq(stack, 1, Len(stack) - 1)
    /\ phase' = PhaseAfter(stack')
    /\ log' = Append(log, Ev("body", Top.fn, "delegate", TupleV(Top.args), ret,
                             [heap |-> heap, kwargs |-> Top.kwargs], "ok"))
    /\ UNCHANGED <<funcs, classes, heap, ctl, ret, exc, called>>

\* A class with the methods increment and transfer, under up to
\* MaxInvariants invariants.
InitNested ==
    /\ funcs = <<NewFunction("increment", <<"self", "value">>),
                 NewFunction("delegate", <<"self", "value">>)>>
    /\ classes = <<[name \in Names |->
                      IF name = N_increment THEN [kind |-> "function", fn |-> 1]
                      ELSE IF name = N_transfer THEN [kind |-> "function", fn |-> 2]
                      ELSE Absent]>>
    /\ \E v \in 0 .. MaxInit : heap = [set |-> TRUE, value |-> v, spent |-> FALSE]
    /\ phase = "define"
    /\ stack = <<>>
    /\ ctl = "idle"
    /\ ret = None_
    /\ exc = NoExc
    /\ called = [name |-> <<>>, kind |-> "none"]
    /\ log = <<>>

NextNested ==
    \/ ApplyInvariant
    \/ StartCall
    \/ CondEnter
    \/ CondExit
    \/ Body
    \/ DelegateBegin
    \/ DelegateEnd
    \/ Propagate

SpecNested == InitNested /\ [][NextNested]_vars

\* Whether class j gets the attribute name from class k below it: no class
\* from k + 1 to j has set a member of that name.
Inherits(j, k, name) ==
    \A l \in k + 1 .. j : classes[l][name] = classes[l - 1][name]

\* setattr(cls, name, added) after the classes were made, for
\* def added(self, value): return value; cls is the class as it was written
\* or the newest InvariantContractor.
AddMethod ==
    /\ phase = "derive"
    /\ \E k \in {1, Len(classes)}, name \in Names \ {N_init} :
          LET entry == [kind |-> "function", fn |-> Len(funcs) + 1]
          IN  /\ funcs' = Append(funcs, NewFunction("added", <<"self", "value">>))
              /\ classes' = [j \in 1 .. Len(classes) |->
                                IF j >= k /\ Inherits(j, k, name)
                                THEN [classes[j] EXCEPT ![name] = entry]
                                ELSE classes[j]]
    /\ phase' = "extended"
    /\ UNCHANGED <<heap, stack, ctl, ret, exc, called, log>>

\* A member is called on an instance of class k: of the class as it was
\* written, or of one of the classes invariant(...) returned.
CallThrough ==
    /\ phase \in {"derive", "extended"}
    /\ \E k \in 1 .. Len(classes), name \in Names, n \in ArgValues :
          LET m == classes[k][name]
          IN  /\ m.kind \in {"function", "staticmethod", "classmethod"}
              /\ called' = [name |-> name, kind |-> m.kind, via |-> k,
                            added |-> funcs[GetWrappedFunc(funcs, m.fn)].body = "added"]
              /\ heap' = IF name = N_init
                         THEN [heap EXCEPT !.set = FALSE, !.value = 0] ELSE heap
              /\ stack' = <<Frame(m.fn, BoundArgs(m, n), NoKwargs)>>
    /\ phase' = "call" /\ ctl' = "call" /\ ret' = None_
    /\ log' = <<>>
    /\ UNCHANGED <<funcs, classes, exc>>

\* A class with one member, the classes invariant(...) makes from it, and a
\* method added to one of them afterwards.
InitDerived == InitWith(Members, {"increment"}, {0})

NextDerived ==
    \/ ApplyInvariant
    \/ AddMethod
    \/ CallThrough
    \/ CondEnter
    \/ CondExit
    \/ Body
    \/ Propagate

SpecDerived == InitDerived /\ [][NextDerived]_vars

\* The arguments func is called with: a number, a string or None.
TypesValues == {IntV(1), StrV(<<"foo">>), None_}

TypesArgs == UNION {[1 .. n -> TypesValues] : n \in 0 .. MaxTypesArgs}

TypesKwargs == UNION {[ks -> TypesValues] : ks \in SUBSET {"b"}}

\* func(*args, **kwargs)
TypesCall ==
    /\ phase = "define"
    /\ \E name \in Names, args \in TypesArgs, kwargs \in TypesKwargs :
          LET m == classes[Len(classes)][name]
          IN  /\ m.kind = "function"
              /\ called' = [name |-> name, kind |-> m.kind,
                            args |-> args, kwargs |-> kwargs, value |-> None_]
              /\ stack' = <<Frame(m.fn, args, kwargs)>>
    /\ phase' = "call" /\ ctl' = "call" /\ ret' = None_
    /\ log' = <<>>
    /\ UNCHANGED <<funcs, classes, heap, exc>>

\* def func(value, b=38) and def func(value, b="Foo") under up to
\* MaxTypesLayers types decorators.
TypesSignatures ==
    {Signature(<<"value", "b">>, <<d>>, "", <<>>, <<>>, "") :
        d \in {IntV(38), StrV(<<"Foo">>)}}

InitTypes ==
    /\ \E sig \in TypesSignatures : funcs = <<DefFunction("noop", sig, FALSE)>>
    /\ classes = <<[name \in Names |->
                      IF name = N_increment THEN [kind |-> "function", fn |-> 1]
                      ELSE Absent]>>
    /\ heap = [set |-> FALSE, value |-> 0, spent |-> FALSE]
    /\ phase = "define"
    /\ stack = <<>>
    /\ ctl = "idle"
    /\ ret = None_
    /\ exc = NoExc
    /\ called = [name |-> <<>>, kind |-> "none"]
    /\ log = <<>>

NextTypes ==
    \/ AttachTypes(MaxTypesLayers)
    \/ TypesCall
    \/ CondEnter
    \/ CondExit
    \/ Body
    \/ Propagate

SpecTypes == InitTypes /\ [][NextTypes]_vars

\* The decorators that `if not __debug__:` defines again, with the number
\* of parameters of the new definition; none has a default.
DisabledDecorators == {"require", "ensure", "invariant", "transform", "preserve"}

DisabledParams(decorator) ==
    IF decorator \in {"transform", "preserve"} THEN 1 ELSE 2

\* The argument forms the decorator takes when __debug__ is true; "t" is
\* the one function transform and preserve are given.
EnabledShapes(decorator) ==
    CASE decorator = "require" -> RequireShapes
      [] decorator = "ensure" -> EnsureShapes
      [] decorator = "invariant" -> InvariantShapes
      [] OTHER -> {"t"}

\* The number of positional arguments of a form.
ShapeCount(shape) ==
    CASE shape \in {"p", "t"} -> 1
      [] shape \in {"dp", "pe", "pc"} -> 2
      [] shape \in {"dpe", "dpc", "pec"} -> 3
      [] shape = "dpec" -> 4

DisabledApplied == Len(SelectSeq(log, LAMBDA e : e.ev = "attach"))

\* @decorator(...) above the target when __debug__ is false: the call of
\* the decorator binds its arguments to (description, predicate), or to
\* the one parameter of transform and preserve; func(f) returns f.
DisabledDecorate ==
    /\ phase = "define" /\ DisabledApplied < MaxDisabledDecorators
    /\ \E name \in Names, decorator \in DisabledDecorators :
       \E shape \in EnabledShapes(decorator) :
          /\ IsTarget(name)
          /\ IF ShapeCount(shape) = DisabledParams(decorator)
             THEN /\ log' = Append(log, Ev("attach", classes[1][name].fn, decorator,
                                           StrV(<<shape>>), None_, <<>>, "ok"))
                  /\ UNCHANGED <<phase, ctl, exc>>
             ELSE /\ log' = Append(log, Ev("attach", 0, decorator,
                                           StrV(<<shape>>), None_, <<>>, "TypeError"))
                  /\ phase' = "failed"
                  /\ ctl' = "raise"
                  /\ exc' = OtherError("TypeError", decorator, 0)
    /\ UNCHANGED <<funcs, classes, heap, stack, ret, called>>

\* The module loaded with __debug__ false: the five decorators are the
\* definitions of `if not __debug__:`, types is the one definition it has.
InitDisabled == InitTypes

NextDisabled ==
    \/ DisabledDecorate
    \/ AttachTypes(MaxDisabledTypes)
    \/ TypesCall
    \/ CondEnter
    \/ CondExit
    \/ Body
    \/ Propagate

SpecDisabled == InitDisabled /\ [][NextDisabled]_vars

\* my_func() without its argument
CallBare ==
    /\ phase = "define"
    /\ \E name \in Names :
          LET m == classes[Len(classes)][name]
          IN  /\ m.kind = "function"
              /\ called' = [name |-> name, kind |-> m.kind,
                            args |-> <<>>, kwargs |-> NoKwargs, value |-> None_]
              /\ stack' = <<Frame(m.fn, <<>>, NoKwargs)>>
    /\ phase' = "call" /\ ctl' = "call" /\ ret' = None_
    /\ log' = <<>>
    /\ UNCHANGED <<funcs, classes, heap, exc>>

\* The arguments my_func is called with: a list or generator, or a number,
\* on which sum raises.
PropagateValues == IterableValues \cup {IntV(1)}

\* my_func under up to MaxPropagateLayers decorators, with error numbers and
\* clean-up actions, called with arguments that make the predicates, the
\* binding or the body fail.
InitPropagate == InitTransform

NextPropagate ==
    \/ AttachRequire({"dp", "dpe"}, IterPredicates, MaxPropagateLayers)
    \/ AttachEnsure({"dp", "dpec"}, {"resPos"}, MaxPropagateLayers)
    \/ AttachPreserve(MaxPropagateLayers)
    \/ AttachTransform(MaxPropagateLayers)
    \/ CallFunction(PropagateValues)
    \/ CallBare
    \/ CondEnter
    \/ CondExit
    \/ PreserveEnter
    \/ PreserveExit
    \/ TransformEnter
    \/ TransformExit
    \/ Body
    \/ Propagate

SpecPropagate == InitPropagate /\ [][NextPropagate]_vars

\* The descriptions and predicates a decorator is tried with: an empty and
\* a nonempty description; predicates of one, two and three arguments, a
\* coroutine function, and a value that is not a function.
TriedDescriptions == {StrV(<<>>), StrV(<<"d">>)}
TriedPredicates ==
    {FnV("pos"), FnV("nonneg"), FnV("resPos"), FnV("incremented"),
     FnV("coropred"), IntV(5)}

\* The outcome of applying a decorator: the function or class it made, or
\* the error of the attachment.
Attached(decorator, d, p, made) ==
    Ev("attach", made, decorator, d, p, <<>>, "ok")

AttachFails(decorator, d, p) ==
    /\ log' = Append(log, Ev("attach", 0, decorator, d, p, <<>>, "AssertionError"))
    /\ phase' = "failed"
    /\ ctl' = "raise"
    /\ exc' = OtherError("AssertionError", decorator, 0)
    /\ UNCHANGED <<funcs, classes, heap, stack, ret, called>>

\* @require(d, p) above the method, with any d and p
TryRequire ==
    /\ phase = "define" /\ Len(funcs) - 1 < MaxAttachLayers
    /\ \E name \in Names, d \in TriedDescriptions, p \in TriedPredicates :
          /\ IsTarget(name)
          /\ IF /\ RequireAccepts(d, p, None_)
                /\ ConditionAccepts(d, p, TRUE, FALSE, FALSE)
             THEN /\ funcs' = Append(funcs,
                         ConditionInner(funcs, classes[1][name].fn, d, p,
                                        TRUE, FALSE, FALSE, IntV(0), None_,
                                        <<d, p, None_, None_>>))
                  /\ classes' = [classes EXCEPT ![1][name].fn = Len(funcs) + 1]
                  /\ log' = Append(log, Attached("require", d, p, Len(funcs) + 1))
                  /\ UNCHANGED <<heap, phase, stack, ctl, ret, exc, called>>
             ELSE AttachFails("require", d, p)

\* @ensure(d, p) above the method, with any d and p
TryEnsure ==
    /\ phase = "define" /\ Len(funcs) - 1 < MaxAttachLayers
    /\ \E name \in Names, d \in TriedDescriptions, p \in TriedPredicates :
          /\ IsTarget(name)
          /\ IF /\ EnsureAccepts(d, p, None_, None_)
                /\ ConditionAccepts(d, p, FALSE, TRUE, FALSE)
             THEN /\ funcs' = Append(funcs,
                         ConditionInner(funcs, classes[1][name].fn, d, p,
                                        FALSE, TRUE, FALSE, IntV(0), None_,
                                        <<d, p, None_, None_>>))
                  /\ classes' = [classes EXCEPT ![1][name].fn = Len(funcs) + 1]
                  /\ log' = Append(log, Attached("ensure", d, p, Len(funcs) + 1))
                  /\ UNCHANGED <<heap, phase, stack, ctl, ret, exc, called>>
             ELSE AttachFails("ensure", d, p)

\* @invariant(d, p) above the class, with any d and p: condition(...) is
\* called, and makes its assertions, for the members that pass check.
TryInvariant ==
    /\ phase \in {"define", "derive"} /\ Len(classes) - 1 < MaxInvariants
    /\ \E d \in TriedDescriptions, p \in TriedPredicates :
          LET inv == Invariant(d, p)
              c == classes[Len(classes)]
          IN  IF \A name \in Names :
                    Check(name, c[name]) =>
                        ConditionAccepts(inv.desc, inv.predicate,
                                         InvariantPrecondition(name), TRUE, TRUE)
              THEN LET w == WrapMembers(DirOrder, c, funcs, c, inv)
                   IN  /\ funcs' = w.funcs
                       /\ classes' = Append(classes, w.cls)
                       /\ log' = Append(log, Attached("invariant", d, p,
                                                      Len(classes) + 1))
                       /\ phase' = "derive"
                       /\ UNCHANGED <<heap, stack, ctl, ret, exc, called>>
              ELSE AttachFails("invariant", d, p)

\* A class with one member, and decorators tried with every description
\* and predicate.
InitAttach == InitWith(Members, {"increment"}, {0})

NextAttach ==
    \/ TryRequire
    \/ TryEnsure
    \/ TryInvariant
    \/ StartCall
    \/ CondEnter
    \/ CondExit
    \/ Body
    \/ Propagate

SpecAttach == InitAttach /\ [][NextAttach]_vars

\* def func(value, b=0, *c); def func(value, *, k); def func(value, *, k=0);
\* def func(value, **kw); def func(_cache); def func(value, b)
BindSignatures ==
    {Signature(<<"value", "b">>, <<IntV(0)>>, "c", <<>>, <<>>, ""),
     Signature(<<"value">>, <<>>, "", <<"k">>, <<>>, ""),
     Signature(<<"value">>, <<>>, "", <<"k">>, [n \in {"k"} |-> IntV(0)], ""),
     Signature(<<"value">>, <<>>, "", <<>>, <<>>, "kw"),
     Positional(<<"_cache">>),
     Positional(<<"value", "b">>)}

BindValues == {IntV(n) : n \in 1 .. MaxBindValue}

\* The positional arguments of a call: up to MaxBindArgs values.
BindArgs == UNION {[1 .. n -> BindValues] : n \in 0 .. MaxBindArgs}

\* The keyword arguments of a call.
BindKwNames == {"value", "k", "z"}
BindKwargs == UNION {[ks -> BindValues] : ks \in SUBSET BindKwNames}

\* func(*args, **kwargs)
BindCall ==
    /\ phase = "define"
    /\ \E name \in Names, args \in BindArgs, kwargs \in BindKwargs :
          LET m == classes[Len(classes)][name]
          IN  /\ m.kind = "function"
              /\ called' = [name |-> name, kind |-> m.kind,
                            args |-> args, kwargs |-> kwargs, value |-> None_]
              /\ stack' = <<Frame(m.fn, args, kwargs)>>
    /\ phase' = "call" /\ ctl' = "call" /\ ret' = None_
    /\ log' = <<>>
    /\ UNCHANGED <<funcs, classes, heap, exc>>

\* A function of any of the signatures under up to MaxBindLayers
\* preconditions that are always true.
InitBind ==
    /\ \E sig \in BindSignatures : funcs = <<DefFunction("noop", sig, FALSE)>>
    /\ classes = <<[name \in Names |->
                      IF name = N_increment THEN [kind |-> "function", fn |-> 1]
                      ELSE Absent]>>
    /\ heap = [set |-> FALSE, value |-> 0, spent |-> FALSE]
    /\ phase = "define"
    /\ stack = <<>>
    /\ ctl = "idle"
    /\ ret = None_
    /\ exc = NoExc
    /\ called = [name |-> <<>>, kind |-> "none"]
    /\ log = <<>>

NextBind ==
    \/ AttachRequire({"dp"}, TruePredicates, MaxBindLayers)
    \/ BindCall
    \/ CondEnter
    \/ CondExit
    \/ Body
    \/ Propagate

SpecBind == InitBind /\ [][NextBind]_vars

-----------------------------------------------------------------------------
(* Properties of a call through a stack of require, ensure and preserve.   *)

LogIdx == 1 .. Len(log)
Done == phase = "done"

IsRequire(fn) ==
    funcs[fn].kind = "condition" /\ funcs[fn].precondition /\ ~funcs[fn].instance
IsEnsure(fn) ==
    funcs[fn].kind = "condition" /\ funcs[fn].postcondition /\ ~funcs[fn].instance
IsInvariantLayer(fn) == funcs[fn].kind = "condition" /\ funcs[fn].instance

RequireLayers == {k \in 1 .. Len(funcs) : IsRequire(k)}
EnsureLayers == {k \in 1 .. Len(funcs) : IsEnsure(k)}

\* A require layer evaluated its predicate on the call's record and got False.
FailedPre(i) ==
    /\ log[i].ev = "pre" /\ log[i].out = "False"
    /\ IsRequire(log[i].fn)
    /\ log[i].a.t = "args"

BodyRan == \E j \in LogIdx : log[j].ev = "body"

\* C1: when the predicate of require(description, predicate) is false on the
\* call's record, the call raises PreconditionError with exactly the
\* description given to require, and the body does not run.
C1_FailedPreconditionRaises ==
    \A i \in LogIdx :
        FailedPre(i) =>
            /\ ctl = "raise"
            /\ exc.type = "PreconditionError"
            /\ exc.description = funcs[log[i].fn].attached[1].q
            /\ ~BodyRan

C1_Witness == Done /\ \E i \in LogIdx : FailedPre(i)

\* "No check fails": every predicate evaluated so far came out True (and no
\* preserver raised).
NoCheckFailed ==
    \A i \in LogIdx :
        /\ log[i].ev \in {"pre", "post"} => log[i].out = "True"
        /\ log[i].ev = "preserver" => log[i].out = "ok"

\* C2: in a call through require and ensure layers in which no check fails,
\* every precondition is evaluated, outermost layer first, before the body;
\* the body runs once; then every postcondition is evaluated, innermost layer
\* first; and the call returns what the body returned.
C2_CheckOrder ==
    (Done /\ called.kind = "function" /\ NoCheckFailed) =>
        /\ ctl = "return"
        /\ \A k \in RequireLayers : \E i \in LogIdx : log[i].ev = "pre" /\ log[i].fn = k
        /\ \A k \in EnsureLayers : \E i \in LogIdx : log[i].ev = "post" /\ log[i].fn = k
        /\ \A i, j \in LogIdx :
              /\ (log[i].ev = "pre" /\ log[j].ev = "pre" /\ i < j)
                    => log[i].fn > log[j].fn
              /\ (log[i].ev = "post" /\ log[j].ev = "post" /\ i < j)
                    => log[i].fn < log[j].fn
              /\ (log[i].ev = "pre" /\ log[j].ev = "body") => i < j
              /\ (log[i].ev = "body" /\ log[j].ev = "post") => i < j
              /\ (log[i].ev = "body" /\ log[j].ev = "body") => i = j
        /\ \E i \in LogIdx :
              log[i].ev = "body" /\ log[i].out = "ok" /\ SameValue(ret, log[i].r)

C2_Witness ==
    /\ Done /\ ctl = "return" /\ NoCheckFailed
    /\ Cardinality(RequireLayers) >= 2
    /\ EnsureLayers # {}

\* C3: when the k-th precondition from the outside is the first false one,
\* the error raised is that condition's PreconditionError (description and
\* errno), every precondition outside it was evaluated and none inside it,
\* the body does not run, and no postcondition is evaluated.
C3_FirstFailedPrecondition ==
    \A i \in LogIdx :
        FailedPre(i) =>
            LET k == log[i].fn
            IN  /\ ctl = "raise"
                /\ exc.type = "PreconditionError"
                /\ exc.fn = k
                /\ exc.description = funcs[k].description
                /\ SameValue(exc.errno, funcs[k].errno)
                /\ \A o \in RequireLayers :
                      o > k => \E j \in 1 .. i - 1 :
                                  /\ log[j].ev = "pre" /\ log[j].fn = o
                                  /\ log[j].out = "True"
                /\ \A j \in LogIdx :
                      /\ log[j].ev = "pre" => j <= i
                      /\ log[j].ev \notin {"body", "post", "cleanup"}

C3_Witness ==
    /\ Done
    /\ EnsureLayers # {}
    /\ \E i \in LogIdx : FailedPre(i) /\ i > 1

-----------------------------------------------------------------------------
(* Properties of the argument forms of require and ensure.                 *)

\* What the decorator call that made wrapper fn was given after its
\* predicate: the clean-up function and the errno, or None.
PredicatePlace(fn) == IF IsStr(funcs[fn].attached[1]) THEN 2 ELSE 1

SuppliedCleanUp(fn) ==
    LET a == funcs[fn].attached
        at == {k \in PredicatePlace(fn) + 1 .. Len(a) : IsFunction(a[k])}
    IN  IF at = {} THEN None_ ELSE a[CHOOSE k \in at : TRUE]

SuppliedErrno(fn) ==
    LET a == funcs[fn].attached
        at == {k \in PredicatePlace(fn) + 1 .. Len(a) : IsInt(a[k])}
    IN  IF at = {} THEN None_ ELSE a[CHOOSE k \in at : TRUE]

CleanUpsOf(fn) == {j \in LogIdx : log[j].ev = "cleanup" /\ log[j].fn = fn}

\* C4: for every form of ensure that is given a clean-up action, a false
\* postcondition is followed by exactly one call of that action, with the
\* call's arguments, before the error is raised; a true one by none.
C4_CleanUpOnFailure ==
    \A i \in LogIdx :
        (log[i].ev = "post" /\ IsEnsure(log[i].fn)
            /\ IsFunction(SuppliedCleanUp(log[i].fn))) =>
            LET k == log[i].fn
            IN  /\ log[i].out = "False" =>
                      /\ CleanUpsOf(k) = {i + 1}
                      /\ log[i + 1].id = SuppliedCleanUp(k).id
                      /\ log[i + 1].a.t = "tuple"
                      /\ Len(log[i + 1].a.q) = 2
                /\ log[i].out = "True" => CleanUpsOf(k) = {}

\* C5: the errno of a PreconditionError or PostconditionError is the integer
\* the decorator was given, and the integer 0 when it was given none.
C5_ErrnoCarried ==
    (ctl = "raise" /\ exc.type \in {"PreconditionError", "PostconditionError"}) =>
        LET given == SuppliedErrno(exc.fn)
        IN  SameValue(exc.errno, IF IsInt(given) THEN given ELSE IntV(0))

\* C6: when the clean-up action of a false postcondition raises, the call
\* raises PostconditionError with the condition's errno and with its
\* description followed by the clean-up error's text, and returns nothing.
C6_CleanUpFailureKeepsError ==
    \A i \in LogIdx :
        (log[i].ev = "cleanup" /\ log[i].out = "raise") =>
            LET k == log[i].fn
                d == funcs[k].description
            IN  /\ ctl = "raise"
                /\ exc.type = "PostconditionError"
                /\ exc.fn = k
                /\ SameValue(exc.errno, funcs[k].errno)
                /\ SameValue(exc.errno, SuppliedErrno(k))
                /\ Len(exc.description) > Len(d)
                /\ SubSeq(exc.description, 1, Len(d)) = d
                /\ exc.description[Len(exc.description)] = CleanUpErrorText
                /\ exc.description = d \o <<". Clean up failed: ", CleanUpErrorText>>

C6_Witness ==
    /\ Done
    /\ \E i \in LogIdx : log[i].ev = "cleanup" /\ log[i].out = "raise"

-----------------------------------------------------------------------------
(* Properties of the class made by invariant(...).                         *)

InvariantLayers == {k \in 1 .. Len(funcs) : IsInvariantLayer(k)}

\* An evaluation of an invariant's predicate.
InvariantEval(i) ==
    log[i].ev \in {"pre", "post"} /\ IsInvariantLayer(log[i].fn)

DunderStyle(name) ==
    StartsWith(name, <<"_", "_">>) /\ EndsWith(name, <<"_", "_">>)

\* C7: around a method of the derived class, an invariant that is false on
\* entry raises PreconditionError with the invariant's description and the
\* body does not run; one that is false when the body has returned raises
\* PostconditionError with that description; around __init__ it is evaluated
\* only after the body; and its predicate is given the receiver alone.
C7_InvariantAroundMethod ==
    called.kind = "function" =>
        /\ \A i \in LogIdx :
              InvariantEval(i) =>
                  LET k == log[i].fn
                  IN  /\ log[i].a.t = "ref"
                      /\ (log[i].ev = "pre" /\ log[i].out = "False") =>
                            /\ called.name # N_init
                            /\ ctl = "raise"
                            /\ exc.type = "PreconditionError"
                            /\ exc.fn = k
                            /\ exc.description = funcs[k].description
                            /\ ~BodyRan
                      /\ (log[i].ev = "post" /\ log[i].out = "False") =>
                            /\ ctl = "raise"
                            /\ exc.type = "PostconditionError"
                            /\ exc.fn = k
                            /\ exc.description = funcs[k].description
                            /\ \E j \in 1 .. i - 1 :
                                  log[j].ev = "body" /\ log[j].out = "ok"
                      /\ called.name = N_init =>
                            /\ log[i].ev = "post"
                            /\ \E j \in 1 .. i - 1 : log[j].ev = "body"
        /\ (Done /\ ctl = "return") =>
              \A k \in InvariantLayers :
                  /\ \E i \in LogIdx :
                        log[i].ev = "post" /\ log[i].fn = k /\ log[i].out = "True"
                  /\ called.name # N_init =>
                        \E i \in LogIdx :
                            log[i].ev = "pre" /\ log[i].fn = k /\ log[i].out = "True"

\* An initializer whose invariant fails after the body.
C7_Witness ==
    /\ Done /\ called.kind = "function" /\ called.name = N_init
    /\ exc.type = "PostconditionError"
    /\ \E i \in LogIdx : InvariantEval(i) /\ log[i].out = "False"

\* The members invariant(...) is said to check.
Eligible(m) ==
    /\ m.kind = "function"
    /\ ~DunderStyle(m.name) \/ m.name \in Exceptions

\* C8 (the half that holds): a call to an eligible method of a derived class
\* evaluates every invariant on entry (except around __init__), and on
\* return when the call returns.
C8_EligibleIsChecked ==
    (Done /\ Eligible(called) /\ Len(classes) > 1) =>
        /\ called.name # N_init => \E i \in LogIdx : InvariantEval(i)
        /\ ctl = "return" =>
              \A k \in InvariantLayers :
                  \E i \in LogIdx : log[i].ev = "post" /\ log[i].fn = k

\* C8: a call on an instance of the derived class evaluates the invariant if
\* and only if the member is an instance method whose name is not
\* dunder-style or is allow-listed.
C8_CheckedIffEligible ==
    /\ C8_EligibleIsChecked
    /\ \A i \in LogIdx : InvariantEval(i) => Eligible(called)

\* C9: wherever preserve stands in the stack relative to a three-argument
\* ensure, the postcondition's third argument holds the preserver's key with
\* the value the receiver had before the body ran.
C9_PreservedWhereverAttached ==
    \A i \in LogIdx :
        (/\ log[i].ev = "post" /\ IsEnsure(log[i].fn)
         /\ ArgCountOf(log[i].id) = 3
         /\ \E k \in 1 .. Len(funcs) : funcs[k].kind = "preserve") =>
            /\ "old_value" \in DOMAIN log[i].old
            /\ \E b \in 1 .. i - 1 :
                  /\ log[b].ev = "body"
                  /\ log[i].old.old_value.n = log[b].old.heap.value

\* C10: every call of an attached preserver, in every layer, is given the
\* call's record of named arguments, never the bare receiver.
C10_PreserverGetsRecord ==
    \A i \in LogIdx :
        (log[i].ev = "preserver" /\ log[i].id # "default") => log[i].a.t = "args"

-----------------------------------------------------------------------------
(* Properties of transform(...).                                           *)

\* The function object the call was made to.
CalledFn == classes[Len(classes)][called.name].fn

TransformCall ==
    /\ phase \in {"call", "done"}
    /\ called.kind = "function"
    /\ funcs[CalledFn].kind = "transform"

\* The transformer call whose record event i was handed: the last one
\* before it.
LastTransform(i) ==
    CHOOSE j \in 1 .. i - 1 :
        /\ log[j].ev = "transform"
        /\ \A l \in j + 1 .. i - 1 : log[l].ev # "transform"

\* Whether record a has the field `value` with the value record b has.
SameValueField(a, b) ==
    HasAttr(a, "value") /\ HasAttr(b, "value") /\ a.m.value = b.m.value

\* C11 (first half): the transformer of the outermost transform is called
\* first and once, with the record of the call's arguments, and every nested
\* predicate is given the record returned by the transformer above it.
C11_NestedSeeRewritten ==
    TransformCall =>
        /\ log # <<>> =>
              /\ log[1].ev = "transform" /\ log[1].fn = CalledFn
              /\ HasAttr(log[1].a, "value") /\ log[1].a.m.value = called.value
        /\ \A i \in LogIdx :
              /\ (log[i].ev = "transform" /\ log[i].fn = CalledFn) => i = 1
              /\ log[i].ev \in {"pre", "post"} =>
                    SameValueField(log[i].a, log[LastTransform(i)].r)
              /\ log[i].ev = "body" =>
                    /\ log[i].a = TupleV(<<>>)
                    /\ SameValueField(ArgsV(log[i].old.kwargs),
                                      log[LastTransform(i)].r)
        /\ Done => log # <<>>

\* C11: in a call to a function with transform outermost, the transformer
\* is called once, first, with the record of the call's arguments; every
\* nested predicate and the body are given the rewritten values; and when
\* the transformer and the nested preconditions pass, the body runs, a
\* materialized generator giving it all of its items.
C11_TransformThenBody ==
    /\ C11_NestedSeeRewritten
    /\ (/\ TransformCall /\ Done
        /\ \A i \in LogIdx :
              /\ log[i].ev = "transform" => log[i].out = "ok"
              /\ log[i].ev = "pre" => log[i].out = "True") =>
            \E b \in LogIdx :
                /\ log[b].ev = "body" /\ log[b].out = "ok"
                /\ funcs[CalledFn].transformer = "materialize" =>
                      log[b].r = IntV(Sum(called.value.q))

\* The stacks in which transform is written above require and ensure alone,
\* on a function without a catch-all.
C11_OverConditions ==
    (/\ funcs[1].sig.vargs = ""
     /\ \A k \in 2 .. Len(funcs) :
           /\ funcs[k].kind = "transform" => k = Len(funcs) /\ k > 2
           /\ funcs[k].kind # "preserve") =>
        C11_TransformThenBody

-----------------------------------------------------------------------------
(* Properties of decorated coroutine functions.                            *)

\* The invocation an entry of log belongs to: the one the event loop last
\* chose before it.
Owner(i) ==
    LET js == {j \in 1 .. i : log[j].ev = "sched"}
    IN  log[CHOOSE j \in js : \A l \in js : l <= j].a.n

Tasks == {log[i].a.n : i \in Spawned}

EventsOf(t, ev) == {i \in LogIdx : log[i].ev = ev /\ Owner(i) = t}

\* The positional arguments invocation t was called with.
OwnArgs(t) ==
    log[CHOOSE i \in Spawned : log[i].a.n = t].r.q

Returned(t) == \E i \in LogIdx : log[i].ev = "outcome" /\ log[i].a.n = t /\ log[i].out = "ok"

\* The stacks in which every condition is written above coroutine functions
\* only, so that its `inner` is the `async def`.
ConditionsAsync ==
    \A k \in 1 .. Len(funcs) : funcs[k].kind = "condition" => funcs[k].is_async

\* C12: in every invocation of a decorated coroutine function, every
\* precondition is evaluated before the body starts, the body is started at
\* most once (once when the invocation returns), and every postcondition
\* is evaluated after the body has returned, on the value it returned.
C12_ChecksAroundAwaitedBody ==
    \A t \in Tasks :
        /\ Cardinality(EventsOf(t, "begin")) <= 1
        /\ Cardinality(EventsOf(t, "body")) <= 1
        /\ Returned(t) =>
              /\ Cardinality(EventsOf(t, "body")) = 1
              /\ \A k \in EnsureLayers : \E i \in EventsOf(t, "post") : log[i].fn = k
        /\ \A b \in EventsOf(t, "begin") :
              /\ \A i \in EventsOf(t, "pre") : i < b
              /\ \A k \in RequireLayers : \E i \in EventsOf(t, "pre") : log[i].fn = k
        /\ \A i \in EventsOf(t, "post") :
              \E b \in EventsOf(t, "body") :
                  b < i /\ log[b].out = "ok" /\ log[i].r = log[b].r

\* C12 holds of the stacks made of require and ensure alone.
C12_OverCoroutine == ConditionsAsync => C12_ChecksAroundAwaitedBody

C19_OwnRecordResultSnapshot ==
    \A t \in Tasks :
        \A i \in EventsOf(t, "post") :
            /\ \/ HasAttr(log[i].a, "value") /\ log[i].a.m.value = OwnArgs(t)[2]
               \/ HasAttr(log[i].a, "args") /\ log[i].a.m.args = TupleV(OwnArgs(t))
            /\ IF log[i].r.t = "coro"
               THEN \/ log[i].r.args = OwnArgs(t)
                    \/ /\ "value" \in DOMAIN log[i].r.kwargs
                       /\ log[i].r.kwargs.value = OwnArgs(t)[2]
               ELSE \E b \in EventsOf(t, "body") : b < i /\ log[i].r = log[b].r
            /\ "old_value" \in DOMAIN log[i].old =>
                  \A g \in EventsOf(t, "begin") :
                      g < i => log[i].old.old_value.n = log[g].old.heap.value

\* Two invocations with different arguments were in flight together, the
\* second started while the first waited, and a postcondition with
\* preserved values was evaluated on the first after the second had changed
\* the object.
C19_Witness ==
    \E t \in Tasks, u \in Tasks :
        /\ OwnArgs(t) # OwnArgs(u)
        /\ \E i \in EventsOf(t, "post"), g \in EventsOf(t, "begin"),
              bu \in EventsOf(u, "begin"), fu \in EventsOf(u, "body") :
              /\ g < bu /\ bu < fu /\ fu < i
              /\ "old_value" \in DOMAIN log[i].old
              /\ log[i].r.t = "int"

-----------------------------------------------------------------------------
(* Properties of build_call.                                               *)

\* The signature of the function the decorators are written above.
TargetSig == funcs[1].sig

SeqRange(q) == {q[k] : k \in 1 .. Len(q)}

\* The declared parameters a record has a field for: the positional names,
\* the keyword-only names, and the catch-all of the positional arguments.
Declared(sig) ==
    SeqRange(sig.named) \cup SeqRange(sig.kwonly) \cup
    (IF sig.vargs # "" THEN {sig.vargs} ELSE {})

PosOf(sig, name) == CHOOSE k \in 1 .. Len(sig.named) : sig.named[k] = name

\* The value the call binds to a declared name: the positional value,
\* otherwise the named value, otherwise the default.
BoundValue(sig, name, args, kwargs) ==
    IF name \in SeqRange(sig.named) /\ PosOf(sig, name) <= Len(args)
    THEN args[PosOf(sig, name)]
    ELSE IF name \in DOMAIN kwargs THEN kwargs[name]
    ELSE IF name \in SeqRange(sig.named)
    THEN sig.defs[PosOf(sig, name) - (Len(sig.named) - Len(sig.defs))]
    ELSE sig.kwonlydefs[name]

Overflow(sig, args) ==
    IF Len(args) > Len(sig.named)
    THEN SubSeq(args, Len(sig.named) + 1, Len(args))
    ELSE <<>>

\* The required parameters the call leaves unbound, by their place in the
\* declaration: positional names first, keyword-only names after them.
DeclarationOrder(sig) == sig.named \o sig.kwonly

UnboundRequired(sig, args, kwargs) ==
    LET order == DeclarationOrder(sig)
        n == Len(sig.named)
    IN  {k \in 1 .. Len(order) :
            /\ order[k] \notin DOMAIN kwargs
            /\ IF k <= n
               THEN k > Len(args) /\ k <= n - Len(sig.defs)
               ELSE order[k] \notin DOMAIN sig.kwonlydefs}

FirstUnbound(sig, args, kwargs) ==
    LET u == UnboundRequired(sig, args, kwargs)
    IN  DeclarationOrder(sig)[CHOOSE k \in u : \A j \in u : k <= j]

\* The record a precondition was evaluated on has exactly the declared
\* parameters as fields, each with the value the call binds to it.
RecordOfCall(a, sig, args, kwargs) ==
    /\ a.t = "args"
    /\ DOMAIN a.m = Declared(sig)
    /\ \A name \in SeqRange(sig.named) \cup SeqRange(sig.kwonly) :
          a.m[name] = BoundValue(sig, name, args, kwargs)
    /\ sig.vargs # "" => a.m[sig.vargs] = TupleV(Overflow(sig, args))

\* C14: the record build_call makes of a call has exactly the declared
\* parameters of the function as fields (positional names, keyword-only
\* names, the catch-all), each bound to its positional value, otherwise to
\* its named value, otherwise to its default; the catch-all holds the
\* positional arguments beyond the declared names.
C14_RecordIsDeclaredParameters ==
    \A i \in LogIdx :
        log[i].ev = "pre" =>
            RecordOfCall(log[i].a, TargetSig, called.args, called.kwargs)

\* C14 holds of the calls Python itself binds to a function that declares
\* no catch-all for keywords.
C14_OverBoundCalls ==
    (/\ phase \in {"call", "done"}
     /\ TargetSig.varkw = ""
     /\ PyBind(TargetSig, called.args, called.kwargs).ok)
        => C14_RecordIsDeclaredParameters

\* C15: a call of a decorated function that leaves a required parameter
\* unbound fails in build_call with the TypeError that names the first such
\* parameter in declaration order; no predicate is evaluated and the body
\* does not run.
C15_MissingArgumentFirst ==
    (/\ phase \in {"call", "done"}
     /\ RequireLayers # {}
     /\ UnboundRequired(TargetSig, called.args, called.kwargs) # {})
        => /\ \A i \in LogIdx :
                 /\ log[i].ev # "pre"
                 /\ ~(log[i].ev = "body" /\ log[i].out = "ok")
           /\ Done =>
                 /\ exc.type = "TypeError"
                 /\ funcs[exc.fn].kind = "condition"
                 /\ exc.description =
                        <<FirstUnbound(TargetSig, called.args, called.kwargs)>>

\* C15 holds of the functions without keyword-only parameters.
C15_OverPositional == TargetSig.kwonly = <<>> => C15_MissingArgumentFirst

\* The outcome of calling the undecorated function.
Original == BodyRun(1, called.args, called.kwargs, heap)

BodyRuns == {i \in LogIdx : log[i].ev = "body" /\ log[i].out = "ok"}

\* C18: a function under preconditions that are always true returns what
\* the function returns and raises what it raises, and its body runs once,
\* on the arguments of the call.
C18_TruePreconditionIsTransparent ==
    (Done /\ RequireLayers # {}) =>
        IF Original.raise
        THEN /\ ctl = "raise"
             /\ exc.type = Original.exc.type
             /\ BodyRuns = {}
        ELSE /\ ctl = "return"
             /\ ret = Original.result
             /\ Cardinality(BodyRuns) = 1
             /\ \A i \in BodyRuns :
                   /\ log[i].a = TupleV(called.args)
                   /\ log[i].old.kwargs = called.kwargs

\* C18 holds when no parameter and no keyword starts with an underscore.
C18_OverPlainNames ==
    (\A name \in Declared(TargetSig) : ~StartsWithUnderscore(name))
        => C18_TruePreconditionIsTransparent

-----------------------------------------------------------------------------
(* Properties of the attachment of a condition.                            *)

\* A description or predicate that no condition may have: an empty
\* description, a predicate that is not a function or is a coroutine
\* function, or one of the wrong number of arguments for the decorator.
InvalidCondition(decorator, d, p) ==
    \/ d.q = <<>>
    \/ ~IsFunction(p)
    \/ IsCoroutineFunction(p)
    \/ IF decorator = "ensure"
       THEN ArgCount(p) \notin {2, 3}
       ELSE ArgCount(p) # 1

\* C16: require, ensure and invariant applied with an empty description, a
\* predicate that is not a function, a coroutine predicate or a predicate
\* of the wrong number of arguments fail when they are applied, and no
\* function or class is made; every condition that is evaluated in a call
\* has a nonempty description and a predicate of the right kind.
C16_InvalidAttachmentFails ==
    \A i \in LogIdx :
        /\ (log[i].ev = "attach" /\ InvalidCondition(log[i].id, log[i].a, log[i].r))
              => /\ log[i].out = "AssertionError"
                 /\ log[i].fn = 0
        /\ log[i].ev \in {"pre", "post"} =>
              /\ funcs[log[i].fn].description # <<>>
              /\ funcs[log[i].fn].predicate \notin CoroutinePredicates
              /\ IF IsEnsure(log[i].fn)
                 THEN ArgCountOf(funcs[log[i].fn].predicate) \in {2, 3}
                 ELSE ArgCountOf(funcs[log[i].fn].predicate) = 1

\* C16 holds of require and ensure, and of the conditions evaluated in a
\* call.
C16_OverCallables ==
    (\A i \in LogIdx : log[i].ev = "attach" => log[i].id # "invariant")
        => C16_InvalidAttachmentFails

-----------------------------------------------------------------------------
(* Properties of an error on its way to the caller.                        *)

\* C17: once an error is raised in a stack of decorators (by a layer's
\* failed condition, by build_call, or by the body), every further step
\* of the call leaves it as it is, with its description and errno, until
\* the caller has it: no layer replaces it or returns in its place, and no
\* layer evaluates a postcondition or calls a clean-up.
C17_ErrorPassesUnchanged ==
    [][ctl = "raise" =>
          /\ ctl' = "raise"
          /\ exc' = exc
          /\ log' = log
          /\ heap' = heap]_vars

\* The caller has got the PreconditionError an inner require raised with
\* its own errno, through an ensure with a clean-up written above it.
C17_Witness ==
    /\ Done /\ ctl = "raise"
    /\ exc.type = "PreconditionError"
    /\ exc.errno = IntV(7)
    /\ \E k \in EnsureLayers : k > exc.fn /\ Truthy(funcs[k].clean_up)

\* The caller has got the error the body raised, through two layers.
C17_BodyErrorWitness ==
    /\ Done /\ ctl = "raise"
    /\ exc.fn = 1
    /\ Len(funcs) = 3

\* The caller has got the TypeError of build_call in an inner layer.
C17_MissingArgumentWitness ==
    /\ Done /\ ctl = "raise"
    /\ exc.type = "TypeError" /\ called.args = <<>> /\ called.kwargs = NoKwargs
    /\ exc.fn > 1 /\ exc.fn < Len(funcs)

-----------------------------------------------------------------------------
(* Properties of a checked method that calls another on the same object.   *)

\* The invariant layers of the derived classes around the function fn.
LayersAround(fn) == {k \in InvariantLayers : funcs[k].wrapped = fn}

\* The object as transfer leaves it when it calls self.increment.
HeapAtNestedCall(g) ==
    [log[g].old.heap EXCEPT !.value = @ - log[g].a.q[2].n]

HoldsAt(k, h) == EvalPredicate(funcs[k].predicate, RefV, None_, <<>>, h) = "True"

\* C20: when transfer, a method of the derived class, calls increment on
\* the same object, every invariant is evaluated on entry to the nested
\* call, on the object as it is then, and again when the nested call
\* returns, besides the evaluations around transfer itself; a nested call
\* made while an invariant is false raises PreconditionError there, and
\* increment does not run.
C20_NestedCallChecked ==
    \A g \in LogIdx :
        (log[g].ev = "begin" /\ log[g].id = "delegate") =>
            LET h == HeapAtNestedCall(g)
                nestedBody == {b \in LogIdx : b > g /\ log[b].ev = "body" /\ log[b].fn = 1}
                ended == {e \in LogIdx : e > g /\ log[e].ev = "body" /\ log[e].fn = 2}
            IN  /\ \A k \in LayersAround(2) :
                      \E i \in 1 .. g - 1 :
                          log[i].ev = "pre" /\ log[i].fn = k /\ log[i].out = "True"
                /\ \A i \in LogIdx :
                      (i > g /\ log[i].ev = "pre") =>
                          /\ log[i].fn \in LayersAround(1)
                          /\ log[i].a = RefV
                          /\ log[i].out = Bool(HoldsAt(log[i].fn, h))
                /\ (\E k \in LayersAround(1) : ~HoldsAt(k, h)) =>
                      /\ nestedBody = {}
                      /\ ended = {}
                      /\ (Done \/ ctl = "raise") =>
                            /\ ctl = "raise"
                            /\ exc.type = "PreconditionError"
                            /\ exc.fn \in LayersAround(1)
                            /\ ~HoldsAt(exc.fn, h)
                /\ \A b \in nestedBody :
                      \A k \in LayersAround(1) :
                          \E i \in g + 1 .. b - 1 :
                              log[i].ev = "pre" /\ log[i].fn = k /\ log[i].out = "True"
                /\ \A e \in ended :
                      /\ \A k \in LayersAround(1) :
                            \E i \in g + 1 .. e - 1 :
                                /\ log[i].ev = "post" /\ log[i].fn = k
                                /\ log[i].out = "True"
                                /\ \E b \in nestedBody : b < i
                      /\ (Done /\ ctl = "return") =>
                            \A k \in LayersAround(2) :
                                \E i \in LogIdx :
                                    i > e /\ log[i].ev = "post" /\ log[i].fn = k

\* transfer was entered with the invariants true, made them false and
\* called increment: the caller has got the PreconditionError of the nested
\* entry.
C20_Witness ==
    /\ Done /\ ctl = "raise" /\ exc.type = "PreconditionError"
    /\ exc.fn \in LayersAround(1)
    /\ LayersAround(2) # {}
    /\ \E g \in LogIdx :
          /\ log[g].ev = "begin" /\ log[g].id = "delegate"
          /\ \E i \in LogIdx : i > g /\ log[i].ev = "pre" /\ log[i].out = "False"

\* transfer returned, with the invariants evaluated around the nested call.
C20_ReturnWitness ==
    /\ Done /\ ctl = "return"
    /\ Cardinality(LayersAround(1)) = 2
    /\ \E g \in LogIdx : log[g].ev = "begin" /\ log[g].id = "delegate"

-----------------------------------------------------------------------------
(* Properties of the class invariant(...) is applied to.                   *)

\* C21: invariant(...) returns a new class and leaves the members of the
\* class it was applied to as they were: a call through that class
\* evaluates no invariant; and a method added to either class after the
\* new class was made is called without any invariant being evaluated.
C21_OriginalClassUntouched ==
    /\ \A name \in Names :
          classes[1][name].fn # 0 => funcs[classes[1][name].fn].kind = "function"
    /\ phase \in {"derive", "extended"} => Len(classes) > 1
    /\ (phase \in {"call", "done"} /\ (called.via = 1 \/ called.added)) =>
          \A i \in LogIdx : ~InvariantEval(i)

\* A method added after the new class was made has been called on an
\* instance of the new class, whose other method is checked.
C21_Witness ==
    /\ Done /\ ctl = "return"
    /\ called.added /\ called.via > 1
    /\ InvariantLayers # {}
    /\ BodyRan

\* A checked method has been called through the class as it was written.
C21_OriginalWitness ==
    /\ Done /\ ctl = "return"
    /\ called.via = 1 /\ ~called.added
    /\ \E k \in InvariantLayers : funcs[k].wrapped = classes[1][called.name].fn
    /\ BodyRan

-----------------------------------------------------------------------------
(* Properties of types(...).                                               *)

TypesLayers ==
    {k \in 1 .. Len(funcs) :
        funcs[k].kind = "condition" /\ funcs[k].predicate \in TypesPredicates}

\* Every requirement of the layer is met by the value the call binds to
\* the name: the argument given, or the default.
TypesMet(k) ==
    LET requirements == TypesRequirements(funcs[k].predicate)
    IN  \A j \in 1 .. Len(requirements) :
            BoundValue(TargetSig, requirements[j].name,
                       called.args, called.kwargs).t \in requirements[j].kind

\* C23: the precondition types(...) makes holds of a call the function
\* accepts exactly when the
\* value bound to every name of the requirements, a default included, is of
\* the type expected or of one of the types of a tuple; otherwise the call
\* raises PreconditionError("the types of arguments must be valid") and the
\* body does not run.
C23_TypesPrecondition ==
    /\ \A i \in LogIdx :
          (/\ log[i].ev = "pre" /\ log[i].fn \in TypesLayers
           /\ PyBind(TargetSig, called.args, called.kwargs).ok) =>
              /\ log[i].out = Bool(TypesMet(log[i].fn))
              /\ log[i].out = "False" =>
                    /\ ctl = "raise"
                    /\ exc = PreconditionError(TypesDescription.q, IntV(0), log[i].fn)
                    /\ ~BodyRan
    /\ (Done /\ PyBind(TargetSig, called.args, called.kwargs).ok) =>
          IF \A k \in TypesLayers : TypesMet(k)
          THEN ctl = "return" /\ BodyRan
          ELSE ctl = "raise" /\ exc.type = "PreconditionError" /\ ~BodyRan

\* A call that leaves out b, whose default is not of the type expected of
\* it, has raised PreconditionError.
C23_Witness ==
    /\ Done /\ ctl = "raise" /\ exc.type = "PreconditionError"
    /\ Len(called.args) = 1 /\ called.kwargs = NoKwargs
    /\ called.args[1].t = "int"
    /\ \E k \in TypesLayers : funcs[k].predicate = "types(b=str, value=int)"

-----------------------------------------------------------------------------
(* Properties of the decorators when __debug__ is false.                   *)

CheckEvents == {"pre", "post", "preserver", "cleanup", "transform"}

ContractErrors == {"PreconditionError", "PostconditionError"}

\* C22: when __debug__ is false, require, ensure, invariant, transform and
\* preserve, given any argument form they take when it is true, return
\* what they decorate unchanged; no predicate, preserver, transformer or
\* clean-up is evaluated, and no check, those of types included, raises a
\* contract failure.
C22_DisabledIsNoOp ==
    /\ phase # "failed"
    /\ \A i \in LogIdx :
          /\ log[i].ev = "attach" => log[i].out = "ok"
          /\ log[i].ev \notin CheckEvents
    /\ exc.type \notin ContractErrors

\* The same of the forms of two arguments, and of the one argument of
\* transform and preserve: what is decorated is returned and no function
\* is made; on a function that types does not decorate nothing is checked.
C22_OverTwoArguments ==
    /\ \A i \in LogIdx :
          (/\ log[i].ev = "attach"
           /\ ShapeCount(log[i].a.q[1]) = DisabledParams(log[i].id)) =>
              /\ log[i].out = "ok"
              /\ log[i].fn \in 1 .. Len(funcs)
    /\ Len(funcs) = 1 + Cardinality(TypesLayers)
    /\ TypesLayers = {} =>
          /\ \A i \in LogIdx : log[i].ev \notin CheckEvents
          /\ exc.type \notin ContractErrors
          /\ (Done /\ PyBind(TargetSig, called.args, called.kwargs).ok) =>
                ctl = "return" /\ BodyRan

-----------------------------------------------------------------------------
(* Properties of invariants on an object that invocations share.           *)

\* The checks that failed.
FailedChecks == {i \in LogIdx : log[i].ev \in {"pre", "post"} /\ log[i].out = "False"}

\* Invocation u has started its body and not finished it when entry i of
\* log is made.
MidBody(u, i) ==
    /\ \E g \in EventsOf(u, "begin") : g < i
    /\ \A b \in EventsOf(u, "body") : b > i

\* The running invocation is at the entry of the inner of a condition.
AtEntry ==
    /\ phase = "call" /\ ctl = "call" /\ stack # <<>>
    /\ funcs[Top.fn].kind = "condition"
    /\ Executes(Top)

\* C24: the checks of an invariant are not made under mutual exclusion. An
\* invocation of borrow that runs alone passes every check: borrow restores
\* the invariant it breaks. A check fails only on the object as another
\* invocation, waiting in its body, has left it; and an invocation at the
\* entry of a condition is never made to wait, whatever the others are in.
C24_ChecksNotExclusive ==
    /\ Cardinality(Spawned) <= 1 => FailedChecks = {}
    /\ \A i \in FailedChecks :
          /\ log[i].fn \in InvariantLayers
          /\ \E u \in Tasks \ {Owner(i)} : MidBody(u, i)
    /\ AtEntry => ENABLED CondEnter

\* Two invocations of borrow on one object have ended: the first returned;
\* the invariant of the second was evaluated while the first waited, with
\* the object as the first had left it, and the second raised
\* PreconditionError.
C24_Witness ==
    /\ Done
    /\ \E t \in Tasks, u \in Tasks :
          /\ t # u
          /\ Returned(t)
          /\ \E i \in EventsOf(u, "pre") :
                /\ i \in FailedChecks
                /\ MidBody(t, i)
          /\ \E o \in LogIdx :
                /\ log[o].ev = "outcome" /\ log[o].a.n = u
                /\ log[o].out = "PreconditionError"

-----------------------------------------------------------------------------
(* Properties of the preservers under several conditions.                  *)

ConditionLayers == {k \in 1 .. Len(funcs) : funcs[k].kind = "condition"}

\* The preservers that preserve(...) has recorded for the function under
\* layer k.
Recorded(k) == funcs[funcs[k].wrapped].preservers

\* The calls of recorded preservers that layer k has made, in order.
PreserverRuns(k) ==
    SelectSeq(log, LAMBDA e : e.ev = "preserver" /\ e.fn = k /\ e.id # "default")

PreserverIdx(k) ==
    {i \in LogIdx : log[i].ev = "preserver" /\ log[i].fn = k /\ log[i].id # "default"}

RunsAll(k) ==
    /\ Len(PreserverRuns(k)) = Len(Recorded(k))
    /\ \A n \in 1 .. Len(Recorded(k)) : PreserverRuns(k)[n].id = Recorded(k)[n]

\* Layer k calls the recorded preservers in their order, each once, until
\* one raises; after its own precondition, which held, and before anything
\* of the conditions and the function under it.
RunsInOrder(k) ==
    /\ Len(PreserverRuns(k)) <= Len(Recorded(k))
    /\ \A n \in 1 .. Len(PreserverRuns(k)) :
          /\ PreserverRuns(k)[n].id = Recorded(k)[n]
          /\ n < Len(PreserverRuns(k)) => PreserverRuns(k)[n].out = "ok"
    /\ (PreserverRuns(k) # <<>> /\ ~RunsAll(k)) =>
          PreserverRuns(k)[Len(PreserverRuns(k))].out # "ok"
    /\ \A i \in PreserverIdx(k), j \in LogIdx :
          /\ (log[j].ev = "pre" /\ log[j].fn = k) => j < i /\ log[j].out = "True"
          /\ (log[j].fn < k /\ log[j].ev \in {"pre", "preserver", "body", "post"})
                => i < j

\* The preservers attached to the function: one for every preserve(...)
\* written above it.
AttachedPreservers == Cardinality({k \in 1 .. Len(funcs) : funcs[k].kind = "preserve"})

\* The conditions the call has entered and whose precondition held.
EnteredLayers ==
    IF ~Done THEN {}
    ELSE IF BodyRan THEN ConditionLayers
    ELSE IF ctl = "raise" /\ exc.type = "PreconditionError"
    THEN {k \in ConditionLayers : k > exc.fn}
    ELSE {}

\* C25: in a call through several conditions above a function with
\* preservers attached, each condition that is entered and whose
\* precondition holds calls every attached preserver once, after its own
\* precondition and before anything of the conditions and the function
\* under it; so the conditions above a precondition that is false have
\* called them all, and that condition and those under it none.
C25_PreserversInEveryLayer ==
    /\ \A k \in ConditionLayers : RunsInOrder(k)
    /\ \A k \in EnteredLayers : Len(PreserverRuns(k)) = AttachedPreservers
    /\ (Done /\ ctl = "raise" /\ exc.type = "PreconditionError") =>
          \A k \in ConditionLayers \ EnteredLayers : PreserverRuns(k) = <<>>

\* The same of the preservers recorded on the function that the condition
\* holds as wrapped, which are those it looks for.
C25_OverRecorded ==
    /\ \A k \in ConditionLayers : RunsInOrder(k)
    /\ \A k \in EnteredLayers : RunsAll(k)
    /\ (Done /\ ctl = "raise" /\ exc.type = "PreconditionError") =>
          \A k \in ConditionLayers \ EnteredLayers : PreserverRuns(k) = <<>>

\* A call through an ensure above a require, with a preserver recorded: the
\* ensure has called the preserver, and the require under it has rejected
\* the call.
C25_Witness ==
    /\ Done /\ ctl = "raise" /\ exc.type = "PreconditionError"
    /\ IsRequire(exc.fn)
    /\ \E k \in EnsureLayers :
          /\ k > exc.fn
          /\ Recorded(k) # <<>>
          /\ PreserverIdx(k) # {}
          /\ \A i \in PreserverIdx(k), j \in LogIdx :
                (log[j].ev = "pre" /\ log[j].fn = exc.fn) => i < j

\* A call through as many conditions as fit beside one preserve has
\* returned: each of them has called the preserver.
C25_EveryLayerWitness ==
    /\ Done /\ ctl = "return"
    /\ Cardinality(ConditionLayers) = MaxLayers - 1
    /\ \A k \in ConditionLayers : Recorded(k) # <<>> /\ RunsAll(k)

-----------------------------------------------------------------------------
(* Properties of transform with a transformer that changes no value.       *)

\* The outcome of calling the undecorated function on the arguments of the
\* call, with the generator among them not yet gone through.
OriginalAtCall ==
    BodyRun(1, called.args, called.kwargs, [heap EXCEPT !.spent = FALSE])

\* Every decorator above the function is transform(lambda args: args).
IdentityTransforms ==
    /\ Len(funcs) > 1
    /\ \A k \in 2 .. Len(funcs) :
          funcs[k].kind = "transform" /\ funcs[k].transformer = "identity"

\* C26: a function under transform with a transformer that returns its
\* record returns what the function returns and raises what it raises,
\* whatever parameters the function declares, a catch-all of the positional
\* arguments included; and the record a transformer makes with rewrite has
\* the fields of the record it was given.
C26_IdentityTransformIsTransparent ==
    /\ (Done /\ IdentityTransforms) =>
          IF OriginalAtCall.raise
          THEN ctl = "raise" /\ exc.type = OriginalAtCall.exc.type
          ELSE ctl = "return" /\ ret = OriginalAtCall.result
    /\ \A i \in LogIdx :
          (log[i].ev = "transform" /\ log[i].out = "ok") =>
              DOMAIN log[i].r.m = DOMAIN log[i].a.m

\* C26 holds of one transform above a function that declares no catch-all
\* of the positional arguments.
C26_OverNamedParameters ==
    (funcs[1].sig.vargs = "" /\ Len(funcs) <= 2) => C26_IdentityTransformIsTransparent

====
